---- MODULE Spec2Model ----
(***************************************************************************)
(* The four FreeCAD build scripts of fishdrone as one state machine.       *)
(*                                                                         *)
(* A build script is a straight-line batch program over one document: it   *)
(* adds objects (doc.addObject followed by the property assignments of     *)
(* that object), calls doc.recompute(), saves the document and exports a   *)
(* list of objects to a STEP file.  Each Python builder function is an     *)
(* operator of the same name that yields the statements it executes        *)
(* (code) and the object names it returns (ret); the actions below         *)
(* execute the statements one at a time against the document.              *)
(*                                                                         *)
(* Lengths are integers in tenths of a millimetre (mm(x) = 10 * x), so     *)
(* that 2.5, 7.5, 1.6 ... of the source are exact.  Python's true          *)
(* division by 3 and the products with cos/sin are rounded down to a       *)
(* tenth.                                                                  *)
(***************************************************************************)
EXTENDS Integers, Sequences, FiniteSets, TLC

VARIABLES
    build,           \* which of the four scripts runs
    script,          \* the statements of that script, in execution order
    wall_thickness,  \* the module-level parameter wall_thickness (mm)
    fault,           \* creation index of the object the kernel rejects, 0 = none
    pc,              \* index of the next statement of the script
    status,          \* "running", "done" or "aborted" (unhandled exception)
    doc,             \* the document: the objects in creation order
    recomputes,      \* number of doc.recompute() calls made
    saved,           \* "no", "yes" (doc.saveAs returned) or "failed" (it raised)
    exported,        \* "no", "yes" (Part.export returned) or "failed" (it raised)
    exportList,      \* the list handed to Part.export, as object indices
    stepFile,        \* the objects written to the STEP file, as object indices
    failedAt,        \* position in exportList where a raising export failed, 0 = none
    report,          \* what the script printed about its artifacts
    rails,           \* create_mounting_system: the list `rails`, as object indices
    rail_i,          \* position of `for rail in rails` (1-based)
    slot_i           \* the inner loop variable i of range(5)

vars == <<build, script, wall_thickness, fault, pc, status, doc, recomputes, saved,
          exported, exportList, stepFile, failedAt, report, rails, rail_i, slot_i>>

-----------------------------------------------------------------------------
(* Bounds of the model *)

\* the kernel fault, if any, hits one of the first MaxFault objects of a build
MaxFault == 12

\* the list `rails` is tracked up to this length
MaxRails == 20

-----------------------------------------------------------------------------
(* Design parameters (mm), the same in the three drone scripts *)

main_body_length == 350
main_body_width == 280
main_body_height == 180
thruster_diameter == 60
thruster_length == 80
thruster_motor_diameter == 42
propeller_diameter == 70
num_thrusters == 6
battery_width == 150
battery_height == 50
battery_depth == 100
pcb_width == 120
pcb_length == 180
connector_diameter == 12
connector_length == 30

(* Parameters of the catamaran hull script (mm) *)
hull_length == 400
hull_width == 150
hull_height == 80
pontoon_spacing == 250

\* wall_thickness as written in the three drone scripts
WallThicknessInSource == 4

\* the parameter sets tried: the one of the source and the invalid one
WallThicknessValues == {4, 200}

Builds == {"hull", "advanced", "detailed", "optimized"}

-----------------------------------------------------------------------------
(* FreeCAD values *)

mm(x) == 10 * x

Vector(x, y, z) == <<x, y, z>>

\* FreeCAD.Rotation(a, b, c): three Euler angles in degrees
Rotation(a, b, c) == <<"euler", a, b, c>>

\* FreeCAD.Rotation(FreeCAD.Vector(x, y, z), angle)
RotationAxis(axis, angle) == <<"axis", axis, angle>>

Placement(base, rotation) == [Base |-> base, Rotation |-> rotation]

\* the Placement of an object whose Placement is never assigned
IdentityPlacement == Placement(Vector(0, 0, 0), Rotation(0, 0, 0))

\* 1000 * math.cos(math.radians(angle)) for the angles the scripts use
CosMilli(angle) ==
    CASE angle = 0 -> 1000
      [] angle = 90 -> 0
      [] angle = 120 -> -500
      [] angle = 180 -> -1000
      [] angle = 240 -> -500
      [] angle = 270 -> 0

\* 1000 * math.sin(math.radians(angle)) for the angles the scripts use
SinMilli(angle) ==
    CASE angle = 0 -> 0
      [] angle = 90 -> 1000
      [] angle = 120 -> 866
      [] angle = 180 -> 0
      [] angle = 240 -> -866
      [] angle = 270 -> -1000

\* math.cos(rad) * len and math.sin(rad) * len, len in tenths of a mm
CosTimes(angle, len) == (CosMilli(angle) * len) \div 1000
SinTimes(angle, len) == (SinMilli(angle) * len) \div 1000

-----------------------------------------------------------------------------
(* Statements of a script *)

\* doc.addObject(type, name) and the property assignments that follow it
AddObject(type, name, dims, placement, links) ==
    [op |-> "add", Type |-> type, Name |-> name, dims |-> dims,
     Placement |-> placement, links |-> links]

Box(name, length, width, height, placement) ==
    AddObject("Part::Box", name,
              [Length |-> length, Width |-> width, Height |-> height],
              placement, <<>>)

Sphere(name, radius, placement) ==
    AddObject("Part::Sphere", name, [Radius |-> radius], placement, <<>>)

Cylinder(name, radius, height, placement) ==
    AddObject("Part::Cylinder", name, [Radius |-> radius, Height |-> height],
              placement, <<>>)

\* C6 mutant: the two radii of the cone assigned the other way round
Cone_RadiiSwapped(name, radius1, radius2, height, placement) ==
    AddObject("Part::Cone", name,
              [Radius1 |-> radius2, Radius2 |-> radius1, Height |-> height],
              placement, <<>>)

Cone(name, radius1, radius2, height, placement) ==
    AddObject("Part::Cone", name,
              [Radius1 |-> radius1, Radius2 |-> radius2, Height |-> height],
              placement, <<>>)

Torus(name, radius1, radius2, placement) ==
    AddObject("Part::Torus", name, [Radius1 |-> radius1, Radius2 |-> radius2],
              placement, <<>>)

\* fusion = doc.addObject("Part::MultiFuse", name); fusion.Shapes = shapes
MultiFuse(name, shapes) ==
    AddObject("Part::MultiFuse", name, [n \in {} |-> 0], IdentityPlacement, shapes)

\* C22 mutant: the two operands of the cut assigned the other way round
Cut_ToolAsBase(name, base, tool) ==
    AddObject("Part::Cut", name, [n \in {} |-> 0], IdentityPlacement, <<tool, base>>)

\* cut = doc.addObject("Part::Cut", name); cut.Base = base; cut.Tool = tool
Cut(name, base, tool) ==
    AddObject("Part::Cut", name, [n \in {} |-> 0], IdentityPlacement, <<base, tool>>)

\* obj.Placement = placement, for an object created earlier
SetPlacement(name, placement) ==
    [op |-> "set", Name |-> name, Placement |-> placement]

Recompute == [op |-> "recompute"]

SaveAs == [op |-> "save"]

\* the try block around Part.export(parts, step_file); withRails: the list
\* ends with the list returned by create_mounting_system
Export(parts, withRails) == [op |-> "export", parts |-> parts, withRails |-> withRails]

\* the `for rail in rails` loop of create_mounting_system over `initial`
TSlots(initial) == [op |-> "tslots", initial |-> initial]

PrimitiveTypes ==
    {"Part::Box", "Part::Sphere", "Part::Cylinder", "Part::Cone", "Part::Torus"}

BooleanTypes == {"Part::MultiFuse", "Part::Cut"}

-----------------------------------------------------------------------------
(* create_hull.py *)

\* C13 mutant: the fusion refers to the nose before the nose is created
create_pontoon_FuseFirst(x_offset, name_suffix) ==
    LET pontoon == "Pontoon" \o name_suffix
        nose == "Nose" \o name_suffix
        fusion == "PontoonFused" \o name_suffix
        nose_radius == mm(hull_width) \div 2
        box == Box(pontoon, mm(hull_length), mm(hull_width), mm(hull_height),
                   Placement(Vector(x_offset - mm(hull_length) \div 2,
                                    -(mm(hull_width) \div 2), 0),
                             Rotation(0, 0, 0)))
        sphere == Sphere(nose, nose_radius,
                         Placement(Vector(x_offset + mm(hull_length) \div 2, 0,
                                          nose_radius),
                                   Rotation(0, 0, 0)))
    IN  [code |-> <<box, Recompute, MultiFuse(fusion, <<pontoon, nose>>), Recompute,
                   sphere, Recompute>>,
         ret |-> <<fusion>>]

\* C14 mutant: the fusion lists the pontoon box twice and leaves the nose out
create_pontoon_SelfFuse(x_offset, name_suffix) ==
    LET pontoon == "Pontoon" \o name_suffix
        nose == "Nose" \o name_suffix
        fusion == "PontoonFused" \o name_suffix
        nose_radius == mm(hull_width) \div 2
        box == Box(pontoon, mm(hull_length), mm(hull_width), mm(hull_height),
                   Placement(Vector(x_offset - mm(hull_length) \div 2,
                                    -(mm(hull_width) \div 2), 0),
                             Rotation(0, 0, 0)))
        sphere == Sphere(nose, nose_radius,
                         Placement(Vector(x_offset + mm(hull_length) \div 2, 0,
                                          nose_radius),
                                   Rotation(0, 0, 0)))
    IN  [code |-> <<box, Recompute, sphere, Recompute,
                   MultiFuse(fusion, <<pontoon, pontoon>>), Recompute>>,
         ret |-> <<fusion>>]

\* C15 mutant: the builder returns the pontoon box, an operand of the fusion
create_pontoon_ReturnsBox(x_offset, name_suffix) ==
    LET pontoon == "Pontoon" \o name_suffix
        nose == "Nose" \o name_suffix
        fusion == "PontoonFused" \o name_suffix
        nose_radius == mm(hull_width) \div 2
        box == Box(pontoon, mm(hull_length), mm(hull_width), mm(hull_height),
                   Placement(Vector(x_offset - mm(hull_length) \div 2,
                                    -(mm(hull_width) \div 2), 0),
                             Rotation(0, 0, 0)))
        sphere == Sphere(nose, nose_radius,
                         Placement(Vector(x_offset + mm(hull_length) \div 2, 0,
                                          nose_radius),
                                   Rotation(0, 0, 0)))
    IN  [code |-> <<box, Recompute, sphere, Recompute,
                   MultiFuse(fusion, <<pontoon, nose>>), Recompute>>,
         ret |-> <<pontoon>>]

\* C7 mutant: the nose is fused without a recompute after its creation
create_pontoon_NoRecompute(x_offset, name_suffix) ==
    LET pontoon == "Pontoon" \o name_suffix
        nose == "Nose" \o name_suffix
        fusion == "PontoonFused" \o name_suffix
        nose_radius == mm(hull_width) \div 2
    IN  [code |-> <<
            Box(pontoon, mm(hull_length), mm(hull_width), mm(hull_height),
                Placement(Vector(x_offset - mm(hull_length) \div 2,
                                 -(mm(hull_width) \div 2), 0),
                          Rotation(0, 0, 0))),
            Recompute,
            Sphere(nose, nose_radius,
                   Placement(Vector(x_offset + mm(hull_length) \div 2, 0, nose_radius),
                             Rotation(0, 0, 0))),
            MultiFuse(fusion, <<pontoon, nose>>),
            Recompute >>,
         ret |-> <<fusion>>]

create_pontoon(x_offset, name_suffix) ==
    LET pontoon == "Pontoon" \o name_suffix
        nose == "Nose" \o name_suffix
        fusion == "PontoonFused" \o name_suffix
        nose_radius == mm(hull_width) \div 2
    IN  [code |-> <<
            Box(pontoon, mm(hull_length), mm(hull_width), mm(hull_height),
                Placement(Vector(x_offset - mm(hull_length) \div 2,
                                 -(mm(hull_width) \div 2), 0),
                          Rotation(0, 0, 0))),
            Recompute,
            Sphere(nose, nose_radius,
                   Placement(Vector(x_offset + mm(hull_length) \div 2, 0, nose_radius),
                             Rotation(0, 0, 0))),
            Recompute,
            MultiFuse(fusion, <<pontoon, nose>>),
            Recompute >>,
         ret |-> <<fusion>>]

\* C8 mutant: the deck is placed again after it was resolved
create_deck_PlacedAgain ==
    [code |-> <<
        Box("Deck", mm(hull_length - 40), mm(pontoon_spacing + hull_width), mm(5),
            Placement(Vector(-(mm(hull_length) \div 2) + mm(20),
                             -(mm(pontoon_spacing) \div 2) - mm(hull_width) \div 2,
                             mm(hull_height)),
                      Rotation(0, 0, 0))),
        Recompute,
        SetPlacement("Deck", Placement(Vector(0, 0, mm(hull_height)),
                                       Rotation(0, 0, 0))) >>,
     ret |-> <<"Deck">>]

create_deck ==
    [code |-> <<
        Box("Deck", mm(hull_length - 40), mm(pontoon_spacing + hull_width), mm(5),
            Placement(Vector(-(mm(hull_length) \div 2) + mm(20),
                             -(mm(pontoon_spacing) \div 2) - mm(hull_width) \div 2,
                             mm(hull_height)),
                      Rotation(0, 0, 0))),
        Recompute >>,
     ret |-> <<"Deck">>]

\* C16 mutant: the document is saved before the deck is created
hull_main_SaveBeforeDeck ==
    LET left_pontoon == create_pontoon(-(mm(pontoon_spacing) \div 2), "_Left")
        right_pontoon == create_pontoon(mm(pontoon_spacing) \div 2, "_Right")
        deck == create_deck
    IN  left_pontoon.code \o right_pontoon.code \o <<Recompute, SaveAs>> \o deck.code
        \o <<Export(left_pontoon.ret \o right_pontoon.ret \o deck.ret, FALSE)>>

\* the module-level statements of create_hull.py
hull_main ==
    LET left_pontoon == create_pontoon(-(mm(pontoon_spacing) \div 2), "_Left")
        right_pontoon == create_pontoon(mm(pontoon_spacing) \div 2, "_Right")
        deck == create_deck
    IN  left_pontoon.code \o right_pontoon.code \o deck.code
        \o <<Recompute, SaveAs,
             Export(left_pontoon.ret \o right_pontoon.ret \o deck.ret, FALSE)>>

-----------------------------------------------------------------------------
(* create_advanced_hull.py *)

\* C17 mutant: the inner fusion leaves the inner tail sphere out
advanced_create_main_body_TailLeftOut(wt) ==
    LET half_len == mm(main_body_length - 100) \div 2
        half_w == mm(main_body_width) \div 2
        half_h == mm(main_body_height) \div 2
    IN  [code |-> <<
            Box("CenterBody", mm(main_body_length - 100), mm(main_body_width),
                mm(main_body_height),
                Placement(Vector(-half_len, -half_w, -half_h), Rotation(0, 0, 0))),
            Recompute,
            Sphere("Nose", half_h,
                   Placement(Vector(-half_len, 0, 0), Rotation(0, 0, 0))),
            Recompute,
            Sphere("Tail", half_h,
                   Placement(Vector(half_len, 0, 0), Rotation(0, 0, 0))),
            Recompute,
            MultiFuse("BodyOuter", <<"CenterBody", "Nose", "Tail">>),
            Recompute,
            Box("CenterInner", mm(main_body_length - 100 - 2 * wt),
                mm(main_body_width - 2 * wt), mm(main_body_height - 2 * wt),
                Placement(Vector(-half_len + mm(wt), -half_w + mm(wt), -half_h + mm(wt)),
                          Rotation(0, 0, 0))),
            Sphere("NoseInner", half_h - mm(wt),
                   Placement(Vector(-half_len + mm(wt) \div 2, 0, 0), Rotation(0, 0, 0))),
            Sphere("TailInner", half_h - mm(wt),
                   Placement(Vector(half_len - mm(wt) \div 2, 0, 0), Rotation(0, 0, 0))),
            Recompute,
            MultiFuse("BodyInner", <<"CenterInner", "NoseInner">>),
            Recompute,
            Cut("HollowBody", "BodyOuter", "BodyInner"),
            Recompute >>,
         ret |-> <<"HollowBody">>]

advanced_create_main_body(wt) ==
    LET half_len == mm(main_body_length - 100) \div 2
        half_w == mm(main_body_width) \div 2
        half_h == mm(main_body_height) \div 2
    IN  [code |-> <<
            Box("CenterBody", mm(main_body_length - 100), mm(main_body_width),
                mm(main_body_height),
                Placement(Vector(-half_len, -half_w, -half_h), Rotation(0, 0, 0))),
            Recompute,
            Sphere("Nose", half_h,
                   Placement(Vector(-half_len, 0, 0), Rotation(0, 0, 0))),
            Recompute,
            Sphere("Tail", half_h,
                   Placement(Vector(half_len, 0, 0), Rotation(0, 0, 0))),
            Recompute,
            MultiFuse("BodyOuter", <<"CenterBody", "Nose", "Tail">>),
            Recompute,
            Box("CenterInner", mm(main_body_length - 100 - 2 * wt),
                mm(main_body_width - 2 * wt), mm(main_body_height - 2 * wt),
                Placement(Vector(-half_len + mm(wt), -half_w + mm(wt), -half_h + mm(wt)),
                          Rotation(0, 0, 0))),
            Sphere("NoseInner", half_h - mm(wt),
                   Placement(Vector(-half_len + mm(wt) \div 2, 0, 0), Rotation(0, 0, 0))),
            Sphere("TailInner", half_h - mm(wt),
                   Placement(Vector(half_len - mm(wt) \div 2, 0, 0), Rotation(0, 0, 0))),
            Recompute,
            MultiFuse("BodyInner", <<"CenterInner", "NoseInner", "TailInner">>),
            Recompute,
            Cut("HollowBody", "BodyOuter", "BodyInner"),
            Recompute >>,
         ret |-> <<"HollowBody">>]

\* C11 mutant: the strut names leave out the thruster's name
advanced_strut_NoSuffix(position, name, i) ==
    LET angle == i * 120
        offset_x == CosTimes(angle, mm(thruster_diameter) \div 2 + mm(10))
        offset_y == SinTimes(angle, mm(thruster_diameter) \div 2 + mm(10))
    IN  Box("Strut_" \o ToString(i), mm(25), mm(3), mm(3),
            Placement(Vector(position[1] + offset_x, position[2] + offset_y,
                             position[3] + mm(thruster_length) \div 2),
                      Rotation(0, 0, angle)))

\* the three mounting struts of create_thruster_mount, i in range(3)
advanced_strut(position, name, i) ==
    LET angle == i * 120
        offset_x == CosTimes(angle, mm(thruster_diameter) \div 2 + mm(10))
        offset_y == SinTimes(angle, mm(thruster_diameter) \div 2 + mm(10))
    IN  Box("Strut_" \o name \o "_" \o ToString(i), mm(25), mm(3), mm(3),
            Placement(Vector(position[1] + offset_x, position[2] + offset_y,
                             position[3] + mm(thruster_length) \div 2),
                      Rotation(0, 0, angle)))

create_thruster_mount(position, rotation, name) ==
    LET motor_housing == "MotorHousing_" \o name
        guard_outer == "GuardOuter_" \o name
        guard_inner == "GuardInner_" \o name
        guard_ring == "GuardRing_" \o name
        thruster_assembly == "ThrusterAssembly_" \o name
        guard_pos == Vector(position[1], position[2], position[3] + mm(thruster_length))
        struts == [i \in 1..3 |-> advanced_strut(position, name, i - 1)]
    IN  [code |-> <<
            Cylinder(motor_housing, mm(thruster_diameter) \div 2, mm(thruster_length),
                     Placement(position, rotation)),
            Recompute,
            Cylinder(guard_outer, mm(thruster_diameter) \div 2 + mm(15), mm(3),
                     Placement(guard_pos, rotation)),
            Recompute,
            Cylinder(guard_inner, mm(thruster_diameter) \div 2 + mm(5), mm(5),
                     Placement(Vector(guard_pos[1], guard_pos[2], guard_pos[3] - mm(1)),
                               rotation)),
            Recompute,
            Cut(guard_ring, guard_outer, guard_inner),
            Recompute >>
            \o struts
            \o <<Recompute,
                 MultiFuse(thruster_assembly,
                           <<motor_housing, guard_ring>>
                           \o [i \in 1..3 |-> struts[i].Name]),
                 Recompute >>,
         ret |-> <<thruster_assembly>>]

\* C10 mutant: the fourth call repeats the position of the third
advanced_thruster_calls_RepeatedPosition ==
    << [position |-> Vector(-(mm(main_body_length) \div 2) - mm(20),
                            mm(main_body_width) \div 2 - mm(40), 0),
        rotation |-> RotationAxis(Vector(0, 1, 0), 90), name |-> "FrontLeft"],
       [position |-> Vector(-(mm(main_body_length) \div 2) - mm(20),
                            -(mm(main_body_width) \div 2) + mm(40), 0),
        rotation |-> RotationAxis(Vector(0, 1, 0), 90), name |-> "FrontRight"],
       [position |-> Vector(mm(main_body_length) \div 2 + mm(20),
                            mm(main_body_width) \div 2 - mm(40), 0),
        rotation |-> RotationAxis(Vector(0, 1, 0), -90), name |-> "RearLeft"],
       [position |-> Vector(mm(main_body_length) \div 2 + mm(20),
                            mm(main_body_width) \div 2 - mm(40), 0),
        rotation |-> RotationAxis(Vector(0, 1, 0), -90), name |-> "RearRight"],
       [position |-> Vector(0, mm(50), mm(main_body_height) \div 2 + mm(10)),
        rotation |-> RotationAxis(Vector(0, 0, 0), 0), name |-> "TopCenter"],
       [position |-> Vector(0, -mm(50), -(mm(main_body_height) \div 2) - mm(10)),
        rotation |-> RotationAxis(Vector(0, 0, 0), 0), name |-> "BottomCenter"] >>

\* the six calls of create_thruster_layout, in order
advanced_thruster_calls ==
    << [position |-> Vector(-(mm(main_body_length) \div 2) - mm(20),
                            mm(main_body_width) \div 2 - mm(40), 0),
        rotation |-> RotationAxis(Vector(0, 1, 0), 90), name |-> "FrontLeft"],
       [position |-> Vector(-(mm(main_body_length) \div 2) - mm(20),
                            -(mm(main_body_width) \div 2) + mm(40), 0),
        rotation |-> RotationAxis(Vector(0, 1, 0), 90), name |-> "FrontRight"],
       [position |-> Vector(mm(main_body_length) \div 2 + mm(20),
                            mm(main_body_width) \div 2 - mm(40), 0),
        rotation |-> RotationAxis(Vector(0, 1, 0), -90), name |-> "RearLeft"],
       [position |-> Vector(mm(main_body_length) \div 2 + mm(20),
                            -(mm(main_body_width) \div 2) + mm(40), 0),
        rotation |-> RotationAxis(Vector(0, 1, 0), -90), name |-> "RearRight"],
       [position |-> Vector(0, mm(50), mm(main_body_height) \div 2 + mm(10)),
        rotation |-> RotationAxis(Vector(0, 0, 0), 0), name |-> "TopCenter"],
       [position |-> Vector(0, -mm(50), -(mm(main_body_height) \div 2) - mm(10)),
        rotation |-> RotationAxis(Vector(0, 0, 0), 0), name |-> "BottomCenter"] >>

\* the concatenation of the code (field f = "code") or of the returned lists
\* (f = "ret") of a sequence of builder results
RECURSIVE Concat(_, _)
Concat(results, f) ==
    IF results = <<>> THEN <<>>
    ELSE Head(results)[f] \o Concat(Tail(results), f)

advanced_create_thruster_layout ==
    LET calls == advanced_thruster_calls
        made == [i \in 1..Len(calls) |->
                    create_thruster_mount(calls[i].position, calls[i].rotation,
                                          calls[i].name)]
    IN  [code |-> Concat(made, "code"), ret |-> Concat(made, "ret")]

\* the four screw holes of create_battery_compartment, i of enumerate(positions)
screw_hole(i) ==
    LET positions ==
            << <<-(mm(battery_depth) \div 2), -(mm(battery_width) \div 2)>>,
               <<-(mm(battery_depth) \div 2), mm(battery_width) \div 2>>,
               <<mm(battery_depth) \div 2, -(mm(battery_width) \div 2)>>,
               <<mm(battery_depth) \div 2, mm(battery_width) \div 2>> >>
    IN  Cylinder("ScrewHole_" \o ToString(i), 25, mm(10),
                 Placement(Vector(positions[i + 1][1], positions[i + 1][2],
                                  mm(main_body_height) \div 2 - mm(2)),
                           Rotation(0, 0, 0)))

create_battery_compartment ==
    LET screw_holes == [i \in 1..4 |-> screw_hole(i - 1)]
    IN  [code |-> <<
            Box("BatteryBay", mm(battery_depth), mm(battery_width), mm(battery_height),
                Placement(Vector(-(mm(battery_depth) \div 2), -(mm(battery_width) \div 2),
                                 -(mm(main_body_height) \div 2) + mm(10)),
                          Rotation(0, 0, 0))),
            Recompute,
            Box("BatteryCover", mm(battery_depth + 10), mm(battery_width + 10), mm(3),
                Placement(Vector(-(mm(battery_depth) \div 2) - mm(5),
                                 -(mm(battery_width) \div 2) - mm(5),
                                 mm(main_body_height) \div 2),
                          Rotation(0, 0, 0))),
            Recompute >>
            \o screw_holes
            \o <<Recompute>>,
         \* returns bay, cover, screw_holes
         ret |-> <<"BatteryBay", "BatteryCover">>,
         screw_holes |-> [i \in 1..4 |-> screw_holes[i].Name]]

\* C28 mutant: the release assembly fuses the outer cylinder of the guide
\* tube next to the tube cut from it
create_fishing_line_release_SharesOuter ==
    [code |-> <<
        Box("ReleaseMechanism", mm(60), mm(40), mm(30),
            Placement(Vector(-(mm(main_body_length) \div 2) - mm(60), -mm(20), -mm(15)),
                      Rotation(0, 0, 0))),
        Recompute,
        Box("ServoMount", mm(25), mm(15), mm(20),
            Placement(Vector(-(mm(main_body_length) \div 2) - mm(40), -75, -mm(10)),
                      Rotation(0, 0, 0))),
        Recompute,
        Cylinder("LineGuideOuter", mm(5), mm(40),
                 Placement(Vector(-(mm(main_body_length) \div 2) - mm(80), 0, 0),
                           RotationAxis(Vector(0, 1, 0), 90))),
        Cylinder("LineGuideInner", mm(3), mm(45),
                 Placement(Vector(-(mm(main_body_length) \div 2) - mm(82), 0, 0),
                           RotationAxis(Vector(0, 1, 0), 90))),
        Recompute,
        Cut("LineGuideTube", "LineGuideOuter", "LineGuideInner"),
        Recompute,
        MultiFuse("ReleaseAssembly", <<"ReleaseMechanism", "ServoMount", "LineGuideOuter",
                                       "LineGuideTube">>),
        Recompute >>,
     ret |-> <<"ReleaseAssembly">>]

create_fishing_line_release ==
    [code |-> <<
        Box("ReleaseMechanism", mm(60), mm(40), mm(30),
            Placement(Vector(-(mm(main_body_length) \div 2) - mm(60), -mm(20), -mm(15)),
                      Rotation(0, 0, 0))),
        Recompute,
        Box("ServoMount", mm(25), mm(15), mm(20),
            Placement(Vector(-(mm(main_body_length) \div 2) - mm(40), -75, -mm(10)),
                      Rotation(0, 0, 0))),
        Recompute,
        Cylinder("LineGuideOuter", mm(5), mm(40),
                 Placement(Vector(-(mm(main_body_length) \div 2) - mm(80), 0, 0),
                           RotationAxis(Vector(0, 1, 0), 90))),
        Cylinder("LineGuideInner", mm(3), mm(45),
                 Placement(Vector(-(mm(main_body_length) \div 2) - mm(82), 0, 0),
                           RotationAxis(Vector(0, 1, 0), 90))),
        Recompute,
        Cut("LineGuideTube", "LineGuideOuter", "LineGuideInner"),
        Recompute,
        MultiFuse("ReleaseAssembly", <<"ReleaseMechanism", "ServoMount", "LineGuideTube">>),
        Recompute >>,
     ret |-> <<"ReleaseAssembly">>]

create_camera_mount ==
    [code |-> <<
        Cylinder("CameraGimbal", mm(20), mm(30),
                 Placement(Vector(-(mm(main_body_length) \div 3), 0,
                                  -(mm(main_body_height) \div 2) - mm(30)),
                           Rotation(0, 0, 0))),
        Recompute,
        Cylinder("LED_Left", mm(8), mm(15),
                 Placement(Vector(-(mm(main_body_length) \div 2) + mm(20),
                                  mm(main_body_width) \div 2 - mm(30), 0),
                           RotationAxis(Vector(0, 1, 0), 90))),
        Cylinder("LED_Right", mm(8), mm(15),
                 Placement(Vector(-(mm(main_body_length) \div 2) + mm(20),
                                  -(mm(main_body_width) \div 2) + mm(30), 0),
                           RotationAxis(Vector(0, 1, 0), 90))),
        Recompute,
        MultiFuse("CameraAssembly", <<"CameraGimbal", "LED_Left", "LED_Right">>),
        Recompute >>,
     ret |-> <<"CameraAssembly">>]

\* the module-level statements of create_advanced_hull.py
advanced_main(wt) ==
    LET main_body == advanced_create_main_body(wt)
        thrusters == advanced_create_thruster_layout
        battery == create_battery_compartment
        release_mechanism == create_fishing_line_release
        camera_mount == create_camera_mount
    IN  main_body.code \o thrusters.code \o battery.code
        \o release_mechanism.code \o camera_mount.code
        \o <<Recompute, SaveAs,
             Export(main_body.ret \o thrusters.ret \o battery.ret
                    \o release_mechanism.ret \o camera_mount.ret, FALSE)>>

-----------------------------------------------------------------------------
(* create_optimized_detailed_drone.py *)

create_body(wt) ==
    LET half_len == mm(main_body_length - 100) \div 2
        half_w == mm(main_body_width) \div 2
        half_h == mm(main_body_height) \div 2
    IN  [code |-> <<
            Box("CenterBody", mm(main_body_length - 100), mm(main_body_width),
                mm(main_body_height),
                Placement(Vector(-half_len, -half_w, -half_h), Rotation(0, 0, 0))),
            Sphere("Nose", half_h,
                   Placement(Vector(-half_len, 0, 0), Rotation(0, 0, 0))),
            Sphere("Tail", half_h,
                   Placement(Vector(half_len, 0, 0), Rotation(0, 0, 0))),
            Recompute,
            MultiFuse("BodyOuter", <<"CenterBody", "Nose", "Tail">>),
            Recompute,
            Box("CenterInner", mm(main_body_length - 100 - 2 * wt),
                mm(main_body_width - 2 * wt), mm(main_body_height - 2 * wt),
                Placement(Vector(-half_len + mm(wt), -half_w + mm(wt), -half_h + mm(wt)),
                          Rotation(0, 0, 0))),
            Sphere("NoseInner", half_h - mm(wt),
                   Placement(Vector(-half_len + mm(wt) \div 2, 0, 0), Rotation(0, 0, 0))),
            Sphere("TailInner", half_h - mm(wt),
                   Placement(Vector(half_len - mm(wt) \div 2, 0, 0), Rotation(0, 0, 0))),
            Recompute,
            MultiFuse("BodyInner", <<"CenterInner", "NoseInner", "TailInner">>),
            Recompute,
            Cut("HollowBody", "BodyOuter", "BodyInner"),
            Recompute >>,
         ret |-> <<"HollowBody">>]

\* C27 mutant: the vertical thrusters, placed off the plane z = 0, get blades
\* 5 mm shorter
optimized_blade_ShorterWhenVertical(pos, name, i) ==
    LET angle == i * 120
        blade_x == pos[1] + CosTimes(angle, mm(15))
        blade_y == pos[2] + SinTimes(angle, mm(15))
        blade_length == IF pos[3] = 0 THEN mm(propeller_diameter) \div 2 - mm(5)
                        ELSE mm(propeller_diameter) \div 2 - mm(10)
    IN  Box("Blade_" \o name \o "_" \o ToString(i),
            blade_length, mm(10), mm(2),
            Placement(Vector(blade_x, blade_y, pos[3] + mm(thruster_length) + mm(2)),
                      Rotation(0, 0, angle)))

\* the three propeller blades of create_thruster, i in range(3)
optimized_blade(pos, name, i) ==
    LET angle == i * 120
        blade_x == pos[1] + CosTimes(angle, mm(15))
        blade_y == pos[2] + SinTimes(angle, mm(15))
    IN  Box("Blade_" \o name \o "_" \o ToString(i),
            mm(propeller_diameter) \div 2 - mm(5), mm(10), mm(2),
            Placement(Vector(blade_x, blade_y, pos[3] + mm(thruster_length) + mm(2)),
                      Rotation(0, 0, angle)))

create_thruster(pos, rot, name) ==
    LET motor == "Motor_" \o name
        flange == "Flange_" \o name
        hub == "Hub_" \o name
        guard_out == "GuardOut_" \o name
        guard_in == "GuardIn_" \o name
        guard == "Guard_" \o name
        arm == "Arm_" \o name
        assy == "Thruster_" \o name
        flange_pos == Vector(pos[1], pos[2], pos[3] + mm(thruster_length) \div 2)
        blades == [i \in 1..3 |-> optimized_blade(pos, name, i - 1)]
    IN  [code |-> <<
            Cylinder(motor, mm(thruster_diameter) \div 2 - mm(5), mm(thruster_length),
                     Placement(pos, rot)),
            Cylinder(flange, mm(thruster_diameter) \div 2, mm(5),
                     Placement(flange_pos, rot)) >>
            \o blades
            \o <<
            Cylinder(hub, mm(10), mm(8),
                     Placement(Vector(pos[1], pos[2], pos[3] + mm(thruster_length)), rot)),
            Cylinder(guard_out, mm(propeller_diameter) \div 2 + mm(8), mm(4),
                     Placement(Vector(pos[1], pos[2], pos[3] + mm(thruster_length) + mm(8)),
                               rot)),
            Cylinder(guard_in, mm(propeller_diameter) \div 2 + mm(4), mm(6),
                     Placement(Vector(pos[1], pos[2], pos[3] + mm(thruster_length) + mm(7)),
                               rot)),
            Recompute,
            Cut(guard, guard_out, guard_in),
            Recompute,
            Box(arm, mm(50), mm(8), mm(8),
                Placement(Vector(pos[1] - mm(25), pos[2] - mm(4),
                                 pos[3] + mm(thruster_length) \div 2),
                          Rotation(0, 0, 0))),
            Recompute,
            MultiFuse(assy, <<motor, flange, hub, guard, arm>>
                            \o [i \in 1..3 |-> blades[i].Name]),
            Recompute >>,
         ret |-> <<assy>>]

\* the six calls of create_thrusters, in order
optimized_thruster_calls ==
    << [position |-> Vector(-(mm(main_body_length) \div 2) - mm(40),
                            mm(main_body_width) \div 2 - mm(40), 0),
        rotation |-> RotationAxis(Vector(0, 1, 0), 90), name |-> "FL"],
       [position |-> Vector(-(mm(main_body_length) \div 2) - mm(40),
                            -(mm(main_body_width) \div 2) + mm(40), 0),
        rotation |-> RotationAxis(Vector(0, 1, 0), 90), name |-> "FR"],
       [position |-> Vector(mm(main_body_length) \div 2 + mm(40),
                            mm(main_body_width) \div 2 - mm(40), 0),
        rotation |-> RotationAxis(Vector(0, 1, 0), -90), name |-> "RL"],
       [position |-> Vector(mm(main_body_length) \div 2 + mm(40),
                            -(mm(main_body_width) \div 2) + mm(40), 0),
        rotation |-> RotationAxis(Vector(0, 1, 0), -90), name |-> "RR"],
       [position |-> Vector(0, mm(60), mm(main_body_height) \div 2 + mm(10)),
        rotation |-> Rotation(0, 0, 0), name |-> "TV"],
       [position |-> Vector(0, -mm(60), -(mm(main_body_height) \div 2) - mm(10)),
        rotation |-> Rotation(0, 0, 0), name |-> "BV"] >>

create_thrusters ==
    LET calls == optimized_thruster_calls
        made == [i \in 1..Len(calls) |->
                    create_thruster(calls[i].position, calls[i].rotation, calls[i].name)]
    IN  [code |-> Concat(made, "code"), ret |-> Concat(made, "ret")]

\* the eight cells of create_battery: for i in range(4): for j in range(2)
optimized_cell(i, j) ==
    Cylinder("Cell_" \o ToString(i) \o "_" \o ToString(j), mm(9), mm(65),
             Placement(Vector(-mm(45) + i * mm(30), -mm(20) + j * mm(40),
                              -(mm(main_body_height) \div 2) + mm(18)),
                       Rotation(0, 0, 0)))

create_battery ==
    LET cells == [k \in 1..8 |-> optimized_cell((k - 1) \div 2, (k - 1) % 2)]
    IN  [code |-> <<
            Box("BatteryHousing", mm(140), mm(90), mm(70),
                Placement(Vector(-mm(70), -mm(45), -(mm(main_body_height) \div 2) + mm(15)),
                          Rotation(0, 0, 0))) >>
            \o cells
            \o <<
            Box("BMS", mm(50), mm(35), mm(2),
                Placement(Vector(-mm(25), -175, -(mm(main_body_height) \div 2) + mm(85)),
                          Rotation(0, 0, 0))),
            Recompute >>,
         ret |-> <<"BatteryHousing", "BMS">> \o [k \in 1..8 |-> cells[k].Name]]

\* the six ESCs of create_electronics, i in range(6)
optimized_esc(i) ==
    LET row == i \div 3
        col == i % 3
    IN  Box("ESC_" \o ToString(i), mm(38), mm(20), mm(10),
            Placement(Vector(-mm(60) + col * mm(45), -mm(50) + row * mm(60), 116),
                      Rotation(0, 0, 0)))

\* C24 mutant: the ESC loop runs over range(4), one ESC per horizontal thruster
optimized_create_electronics_FourESCs ==
    LET escs == [i \in 1..4 |-> optimized_esc(i - 1)]
    IN  [code |-> <<
            Box("MainPCB", mm(180), mm(120), 16,
                Placement(Vector(-mm(90), -mm(60), mm(10)), Rotation(0, 0, 0))),
            Box("MCU", mm(35), mm(35), mm(4),
                Placement(Vector(-175, -175, 116), Rotation(0, 0, 0))) >>
            \o escs
            \o <<Recompute>>,
         ret |-> <<"MainPCB", "MCU">> \o [i \in 1..4 |-> escs[i].Name]]

optimized_create_electronics ==
    LET escs == [i \in 1..6 |-> optimized_esc(i - 1)]
    IN  [code |-> <<
            Box("MainPCB", mm(180), mm(120), 16,
                Placement(Vector(-mm(90), -mm(60), mm(10)), Rotation(0, 0, 0))),
            Box("MCU", mm(35), mm(35), mm(4),
                Placement(Vector(-175, -175, 116), Rotation(0, 0, 0))) >>
            \o escs
            \o <<Recompute>>,
         ret |-> <<"MainPCB", "MCU">> \o [i \in 1..6 |-> escs[i].Name]]

create_connectors ==
    [code |-> <<
        Cylinder("PowerConnector", mm(8), mm(35),
                 Placement(Vector(mm(main_body_length) \div 2 - mm(15), 0,
                                  mm(main_body_height) \div 2 - mm(15)),
                           RotationAxis(Vector(0, 1, 0), 90))),
        Cylinder("CommConnector", mm(6), mm(30),
                 Placement(Vector(mm(main_body_length) \div 2 - mm(15),
                                  mm(main_body_width) \div 2 - mm(15), mm(25)),
                           RotationAxis(Vector(1, 0, 0), 90))),
        Recompute >>,
     ret |-> <<"PowerConnector", "CommConnector">>]

create_fishing_system ==
    [code |-> <<
        Box("ServoBox", mm(45), mm(22), mm(38),
            Placement(Vector(-(mm(main_body_length) \div 2) - mm(55), -mm(11), -mm(19)),
                      Rotation(0, 0, 0))),
        Cylinder("LineSpool", mm(22), mm(45),
                 Placement(Vector(-(mm(main_body_length) \div 2) - mm(85), 0, -mm(10)),
                           RotationAxis(Vector(1, 0, 0), 90))),
        Cylinder("GuideOuter", mm(5), mm(45),
                 Placement(Vector(-(mm(main_body_length) \div 2) - mm(105), 0, -mm(10)),
                           RotationAxis(Vector(0, 1, 0), 90))),
        Cylinder("GuideInner", mm(3), mm(50),
                 Placement(Vector(-(mm(main_body_length) \div 2) - mm(107), 0, -mm(10)),
                           RotationAxis(Vector(0, 1, 0), 90))),
        Recompute,
        Cut("LineGuide", "GuideOuter", "GuideInner"),
        Recompute,
        Torus("HookRing", mm(10), 25,
              Placement(Vector(-(mm(main_body_length) \div 2) - mm(130), 0, -mm(10)),
                        RotationAxis(Vector(0, 1, 0), 90))),
        Recompute >>,
     ret |-> <<"ServoBox", "LineSpool", "LineGuide", "HookRing">>]

create_camera ==
    [code |-> <<
        Sphere("CameraHousing", mm(22),
               Placement(Vector(-(mm(main_body_length) \div 3), 0,
                                -(mm(main_body_height) \div 2) - mm(38)),
                         Rotation(0, 0, 0))),
        Cylinder("Lens", mm(9), mm(12),
                 Placement(Vector(-(mm(main_body_length) \div 3), 0,
                                  -(mm(main_body_height) \div 2) - mm(55)),
                           Rotation(0, 0, 0))),
        Cylinder("LED_Left", mm(11), mm(22),
                 Placement(Vector(-(mm(main_body_length) \div 2) + mm(35),
                                  mm(main_body_width) \div 2 - mm(32), 0),
                           RotationAxis(Vector(0, 1, 0), 90))),
        Cylinder("LED_Right", mm(11), mm(22),
                 Placement(Vector(-(mm(main_body_length) \div 2) + mm(35),
                                  -(mm(main_body_width) \div 2) + mm(32), 0),
                           RotationAxis(Vector(0, 1, 0), 90))),
        Recompute >>,
     ret |-> <<"CameraHousing", "Lens", "LED_Left", "LED_Right">>]

optimized_create_antenna ==
    [code |-> <<
        Cylinder("AntennaMast", 35, mm(85),
                 Placement(Vector(mm(main_body_length) \div 2 - mm(42), 0,
                                  mm(main_body_height) \div 2),
                           Rotation(0, 0, 0))),
        Cone("AntennaTip", 35, 0, mm(18),
             Placement(Vector(mm(main_body_length) \div 2 - mm(42), 0,
                              mm(main_body_height) \div 2 + mm(85)),
                       Rotation(0, 0, 0))),
        Cylinder("AntennaBase", mm(9), mm(12),
                 Placement(Vector(mm(main_body_length) \div 2 - mm(42), 0,
                                  mm(main_body_height) \div 2 - mm(6)),
                           Rotation(0, 0, 0))),
        Recompute,
        MultiFuse("Antenna", <<"AntennaMast", "AntennaTip", "AntennaBase">>),
        Recompute >>,
     ret |-> <<"Antenna">>]

\* the module-level statements of create_optimized_detailed_drone.py
optimized_main(wt) ==
    LET body == create_body(wt)
        thrusters == create_thrusters
        battery == create_battery
        electronics == optimized_create_electronics
        connectors == create_connectors
        fishing == create_fishing_system
        camera == create_camera
        antenna == optimized_create_antenna
    IN  body.code \o thrusters.code \o battery.code \o electronics.code
        \o connectors.code \o fishing.code \o camera.code \o antenna.code
        \o <<Recompute, SaveAs,
             Export(body.ret \o antenna.ret \o thrusters.ret \o battery.ret
                    \o electronics.ret \o connectors.ret \o fishing.ret
                    \o camera.ret, FALSE)>>

-----------------------------------------------------------------------------
(* create_detailed_drone.py *)

\* the two ribs made by one pass of `for i in range(-1, 2)`
internal_rib_pair(wt, i) ==
    LET rib_thickness == mm(2)
        rib_spacing == mm(60)
        x_pos == i * rib_spacing
    IN  << Box("Rib_V_" \o ToString(i), rib_thickness,
               mm(main_body_width - 2 * wt - 10), mm(main_body_height - 2 * wt - 10),
               Placement(Vector(x_pos - rib_thickness \div 2,
                                -(mm(main_body_width) \div 2) + mm(wt) + mm(5),
                                -(mm(main_body_height) \div 2) + mm(wt) + mm(5)),
                         Rotation(0, 0, 0))),
           Box("Rib_H_" \o ToString(i), rib_thickness,
               mm(main_body_width - 2 * wt - 10), rib_thickness,
               Placement(Vector(x_pos - rib_thickness \div 2,
                                -(mm(main_body_width) \div 2) + mm(wt) + mm(5), 0),
                         Rotation(0, 0, 0))) >>

create_internal_ribs(wt) ==
    LET ribs == internal_rib_pair(wt, -1) \o internal_rib_pair(wt, 0)
                \o internal_rib_pair(wt, 1)
    IN  [code |-> ribs \o <<Recompute>>,
         ret |-> [k \in 1..Len(ribs) |-> ribs[k].Name]]

detailed_create_main_body(wt) ==
    LET half_len == mm(main_body_length - 100) \div 2
        half_w == mm(main_body_width) \div 2
        half_h == mm(main_body_height) \div 2
        ribs == create_internal_ribs(wt)
    IN  [code |-> <<
            Box("CenterBody", mm(main_body_length - 100), mm(main_body_width),
                mm(main_body_height),
                Placement(Vector(-half_len, -half_w, -half_h), Rotation(0, 0, 0))),
            Sphere("Nose", half_h,
                   Placement(Vector(-half_len, 0, 0), Rotation(0, 0, 0))),
            Sphere("Tail", half_h,
                   Placement(Vector(half_len, 0, 0), Rotation(0, 0, 0))),
            Recompute,
            MultiFuse("BodyOuter", <<"CenterBody", "Nose", "Tail">>),
            Recompute,
            Box("CenterInner", mm(main_body_length - 100 - 2 * wt),
                mm(main_body_width - 2 * wt), mm(main_body_height - 2 * wt),
                Placement(Vector(-half_len + mm(wt), -half_w + mm(wt), -half_h + mm(wt)),
                          Rotation(0, 0, 0))),
            Sphere("NoseInner", half_h - mm(wt),
                   Placement(Vector(-half_len + mm(wt) \div 2, 0, 0), Rotation(0, 0, 0))),
            Sphere("TailInner", half_h - mm(wt),
                   Placement(Vector(half_len - mm(wt) \div 2, 0, 0), Rotation(0, 0, 0))),
            Recompute,
            MultiFuse("BodyInner", <<"CenterInner", "NoseInner", "TailInner">>),
            Recompute,
            Cut("HollowBody", "BodyOuter", "BodyInner"),
            Recompute >>
            \o ribs.code,
         \* returns hollow_body, ribs
         ret |-> <<"HollowBody">>,
         ribs |-> ribs.ret]

\* the three propeller blades of create_detailed_thruster, i in range(3)
detailed_blade(position, name, i) ==
    LET angle == i * 120
        blade_x == position[1] + CosTimes(angle, mm(propeller_diameter)) \div 4
        blade_y == position[2] + SinTimes(angle, mm(propeller_diameter)) \div 4
    IN  Box("PropBlade_" \o name \o "_" \o ToString(i),
            mm(propeller_diameter) \div 2, mm(8), mm(2),
            Placement(Vector(blade_x, blade_y, position[3] + mm(thruster_length)),
                      Rotation(0, 0, angle)))

\* the four guard struts of create_detailed_thruster, i in range(4)
detailed_guard_strut(position, name, i) ==
    LET angle == i * 90
    IN  Box("GuardStrut_" \o name \o "_" \o ToString(i),
            mm(propeller_diameter) \div 2 + mm(8), mm(3), mm(2),
            Placement(Vector(position[1], position[2],
                             position[3] + mm(thruster_length) + mm(6)),
                      Rotation(0, 0, angle)))

\* the two mounting arms of create_detailed_thruster, i in range(2)
detailed_mount_arm(position, name, i) ==
    LET offset == IF i = 0 THEN mm(15) ELSE -mm(15)
    IN  Box("MountArm_" \o name \o "_" \o ToString(i), mm(40), mm(6), mm(6),
            Placement(Vector(position[1], position[2] + offset,
                             position[3] + mm(thruster_length) \div 2),
                      Rotation(0, 0, 0)))

create_detailed_thruster(position, rotation, name) ==
    LET motor_housing == "MotorHousing_" \o name
        cap == "MotorCap_" \o name
        bracket == "MotorBracket_" \o name
        hub == "PropHub_" \o name
        guard_outer == "GuardOuter_" \o name
        guard_inner == "GuardInner_" \o name
        guard_ring == "GuardRing_" \o name
        thruster_assembly == "Thruster_" \o name
        cap_pos == Vector(position[1], position[2], position[3] - mm(5))
        blades == [i \in 1..3 |-> detailed_blade(position, name, i - 1)]
        struts == [i \in 1..4 |-> detailed_guard_strut(position, name, i - 1)]
        arms == [i \in 1..2 |-> detailed_mount_arm(position, name, i - 1)]
        parts == <<motor_housing, cap, bracket>>
                 \o [i \in 1..3 |-> blades[i].Name]
                 \o <<hub, guard_ring>>
                 \o [i \in 1..4 |-> struts[i].Name]
                 \o [i \in 1..2 |-> arms[i].Name]
    IN  [code |-> <<
            Cylinder(motor_housing, mm(thruster_motor_diameter) \div 2,
                     mm(thruster_length), Placement(position, rotation)),
            Recompute,
            Cylinder(cap, mm(thruster_motor_diameter) \div 2 + mm(2), mm(5),
                     Placement(cap_pos, rotation)),
            Box(bracket, mm(thruster_motor_diameter + 10), mm(thruster_motor_diameter + 10),
                mm(3),
                Placement(Vector(position[1] - mm(thruster_motor_diameter + 10) \div 2,
                                 position[2] - mm(thruster_motor_diameter + 10) \div 2,
                                 position[3] + mm(thruster_length) \div 2),
                          Rotation(0, 0, 0))) >>
            \o blades
            \o <<
            Cylinder(hub, mm(8), mm(10),
                     Placement(Vector(position[1], position[2],
                                      position[3] + mm(thruster_length)),
                               rotation)),
            Cylinder(guard_outer, mm(propeller_diameter) \div 2 + mm(10), mm(4),
                     Placement(Vector(position[1], position[2],
                                      position[3] + mm(thruster_length) + mm(5)),
                               rotation)),
            Cylinder(guard_inner, mm(propeller_diameter) \div 2 + mm(5), mm(6),
                     Placement(Vector(position[1], position[2],
                                      position[3] + mm(thruster_length) + mm(4)),
                               rotation)),
            Recompute,
            Cut(guard_ring, guard_outer, guard_inner),
            Recompute >>
            \o struts
            \o arms
            \o <<Recompute,
                 MultiFuse(thruster_assembly, parts),
                 Recompute >>,
         ret |-> <<thruster_assembly>>]

\* the six calls of create_thruster_layout, in order
detailed_thruster_calls ==
    << [position |-> Vector(-(mm(main_body_length) \div 2) - mm(40),
                            mm(main_body_width) \div 2 - mm(40), 0),
        rotation |-> RotationAxis(Vector(0, 1, 0), 90), name |-> "FL"],
       [position |-> Vector(-(mm(main_body_length) \div 2) - mm(40),
                            -(mm(main_body_width) \div 2) + mm(40), 0),
        rotation |-> RotationAxis(Vector(0, 1, 0), 90), name |-> "FR"],
       [position |-> Vector(mm(main_body_length) \div 2 + mm(40),
                            mm(main_body_width) \div 2 - mm(40), 0),
        rotation |-> RotationAxis(Vector(0, 1, 0), -90), name |-> "RL"],
       [position |-> Vector(mm(main_body_length) \div 2 + mm(40),
                            -(mm(main_body_width) \div 2) + mm(40), 0),
        rotation |-> RotationAxis(Vector(0, 1, 0), -90), name |-> "RR"],
       [position |-> Vector(0, mm(60), mm(main_body_height) \div 2 + mm(10)),
        rotation |-> Rotation(0, 0, 0), name |-> "TV"],
       [position |-> Vector(0, -mm(60), -(mm(main_body_height) \div 2) - mm(10)),
        rotation |-> Rotation(0, 0, 0), name |-> "BV"] >>

detailed_create_thruster_layout ==
    LET calls == detailed_thruster_calls
        made == [i \in 1..Len(calls) |->
                    create_detailed_thruster(calls[i].position, calls[i].rotation,
                                             calls[i].name)]
    IN  [code |-> Concat(made, "code"), ret |-> Concat(made, "ret")]

\* the six thruster cable glands of create_cable_glands, i of enumerate
thruster_gland(i) ==
    LET hl == mm(main_body_length) \div 2
        hw == mm(main_body_width) \div 2
        hh == mm(main_body_height) \div 2
        thruster_positions ==
            << <<-hl + mm(30), hw - mm(30), mm(30)>>,
               <<-hl + mm(30), -hw + mm(30), mm(30)>>,
               <<hl - mm(30), hw - mm(30), mm(30)>>,
               <<hl - mm(30), -hw + mm(30), mm(30)>>,
               <<mm(20), hw - mm(20), hh - mm(10)>>,
               <<mm(20), -hw + mm(20), -hh + mm(10)>> >>
        p == thruster_positions[i + 1]
    IN  Cylinder("ThrusterGland_" \o ToString(i), mm(6), mm(20),
                 Placement(Vector(p[1], p[2], p[3]), RotationAxis(Vector(1, 0, 0), 90)))

\* C18 mutant: the placement assignment of the housing loop is the other way round
create_cable_glands_MovesGland ==
    LET power_gland ==
            Cylinder("PowerGland", mm(connector_diameter) \div 2, mm(connector_length),
                     Placement(Vector(mm(main_body_length) \div 2 - mm(20), 0,
                                      mm(main_body_height) \div 2 - mm(20)),
                               RotationAxis(Vector(0, 1, 0), 90)))
        comm_gland ==
            Cylinder("CommGland", mm(connector_diameter) \div 2, mm(connector_length),
                     Placement(Vector(mm(main_body_length) \div 2 - mm(20),
                                      mm(main_body_width) \div 2 - mm(20), mm(20)),
                               RotationAxis(Vector(1, 0, 0), 90)))
        glands == <<power_gland, comm_gland>> \o [i \in 1..6 |-> thruster_gland(i - 1)]
        \* for i, gland in enumerate(glands[:2]): gland.Placement = housing.Placement
        housings == [i \in 1..2 |->
                        Cylinder("ConnectorHousing_" \o ToString(i - 1),
                                 mm(connector_diameter) \div 2 + mm(3), mm(15),
                                 IdentityPlacement)]
        moves == [i \in 1..2 |-> SetPlacement(glands[i].Name, IdentityPlacement)]
    IN  [code |-> glands \o <<Recompute>>
                  \o <<housings[1], moves[1], housings[2], moves[2], Recompute>>,
         \* returns glands, housings
         ret |-> [i \in 1..8 |-> glands[i].Name],
         housings |-> [i \in 1..2 |-> housings[i].Name]]

create_cable_glands ==
    LET power_gland ==
            Cylinder("PowerGland", mm(connector_diameter) \div 2, mm(connector_length),
                     Placement(Vector(mm(main_body_length) \div 2 - mm(20), 0,
                                      mm(main_body_height) \div 2 - mm(20)),
                               RotationAxis(Vector(0, 1, 0), 90)))
        comm_gland ==
            Cylinder("CommGland", mm(connector_diameter) \div 2, mm(connector_length),
                     Placement(Vector(mm(main_body_length) \div 2 - mm(20),
                                      mm(main_body_width) \div 2 - mm(20), mm(20)),
                               RotationAxis(Vector(1, 0, 0), 90)))
        glands == <<power_gland, comm_gland>> \o [i \in 1..6 |-> thruster_gland(i - 1)]
        \* for i, gland in enumerate(glands[:2]): housing.Placement = gland.Placement
        housings == [i \in 1..2 |->
                        Cylinder("ConnectorHousing_" \o ToString(i - 1),
                                 mm(connector_diameter) \div 2 + mm(3), mm(15),
                                 glands[i].Placement)]
    IN  [code |-> glands \o <<Recompute>> \o housings \o <<Recompute>>,
         \* returns glands, housings
         ret |-> [i \in 1..8 |-> glands[i].Name],
         housings |-> [i \in 1..2 |-> housings[i].Name]]

\* the eight cells of create_battery_system: for i in range(4): for j in range(2)
battery_cell(i, j) ==
    LET cell_diameter == mm(18)
        cell_height == mm(65)
    IN  Cylinder("BatteryCell_" \o ToString(i) \o "_" \o ToString(j),
                 cell_diameter \div 2, cell_height,
                 Placement(Vector(-mm(40) + i * mm(25), -mm(15) + j * mm(30),
                                  -(mm(main_body_height) \div 2) + mm(15)),
                           Rotation(0, 0, 0)))

create_battery_system ==
    LET cells == [k \in 1..8 |-> battery_cell((k - 1) \div 2, (k - 1) % 2)]
    IN  [code |-> cells \o <<
            Recompute,
            Box("BatteryTray", mm(120), mm(80), mm(3),
                Placement(Vector(-mm(60), -mm(40), -(mm(main_body_height) \div 2) + mm(12)),
                          Rotation(0, 0, 0))),
            Box("BatteryCover", mm(125), mm(85), mm(70),
                Placement(Vector(-625, -425, -(mm(main_body_height) \div 2) + mm(15)),
                          Rotation(0, 0, 0))),
            Box("BMS", mm(40), mm(30), mm(2),
                Placement(Vector(-mm(20), -mm(15), -(mm(main_body_height) \div 2) + mm(85)),
                          Rotation(0, 0, 0))),
            Recompute >>,
         \* returns cells, tray, cover, bms
         cells |-> [k \in 1..8 |-> cells[k].Name],
         ret |-> <<"BatteryTray", "BatteryCover", "BMS">>]

\* pcb_thickness = 1.6 mm, in tenths of a mm
pcb_thickness_tenths == 16

\* the four PCB standoffs of create_electronics, i of enumerate
standoff(i) ==
    LET hl == mm(pcb_length) \div 2
        hw == mm(pcb_width) \div 2
        standoff_positions ==
            << <<-hl + mm(5), -hw + mm(5)>>, <<-hl + mm(5), hw - mm(5)>>,
               <<hl - mm(5), -hw + mm(5)>>, <<hl - mm(5), hw - mm(5)>> >>
        p == standoff_positions[i + 1]
    IN  Cylinder("Standoff_" \o ToString(i), mm(3), mm(8),
                 Placement(Vector(p[1], p[2], mm(2)), Rotation(0, 0, 0)))

\* the six ESCs of create_electronics, i in range(6)
detailed_esc(i) ==
    LET row == i \div 3
        col == i % 3
    IN  Box("ESC_" \o ToString(i), mm(35), mm(18), mm(8),
            Placement(Vector(-mm(50) + col * mm(40), -mm(45) + row * mm(50),
                             mm(10) + pcb_thickness_tenths + mm(5)),
                      Rotation(0, 0, 0)))

detailed_create_electronics ==
    LET standoffs == [i \in 1..4 |-> standoff(i - 1)]
        escs == [i \in 1..6 |-> detailed_esc(i - 1)]
    IN  [code |-> <<
            Box("MainPCB", mm(pcb_length), mm(pcb_width), pcb_thickness_tenths,
                Placement(Vector(-(mm(pcb_length) \div 2), -(mm(pcb_width) \div 2), mm(10)),
                          Rotation(0, 0, 0))) >>
            \o standoffs
            \o <<
            Box("Microcontroller", mm(30), mm(30), mm(3),
                Placement(Vector(-mm(15), -mm(15), mm(10) + pcb_thickness_tenths),
                          Rotation(0, 0, 0))) >>
            \o escs
            \o <<
            Box("IMU", mm(15), mm(15), mm(3),
                Placement(Vector(mm(25), -75, mm(10) + pcb_thickness_tenths),
                          Rotation(0, 0, 0))),
            Box("VoltageRegulator", mm(25), mm(15), mm(5),
                Placement(Vector(mm(50), -75, mm(10) + pcb_thickness_tenths),
                          Rotation(0, 0, 0))),
            Recompute >>,
         ret |-> <<"MainPCB">> \o [i \in 1..4 |-> standoffs[i].Name]
                 \o <<"Microcontroller", "IMU", "VoltageRegulator">>
                 \o [i \in 1..6 |-> escs[i].Name]]

detailed_create_antenna ==
    [code |-> <<
        Cylinder("AntennaMast", mm(3), mm(80),
                 Placement(Vector(mm(main_body_length) \div 2 - mm(40), 0,
                                  mm(main_body_height) \div 2),
                           Rotation(0, 0, 0))),
        Cone("AntennaTip", mm(3), 0, mm(15),
             Placement(Vector(mm(main_body_length) \div 2 - mm(40), 0,
                              mm(main_body_height) \div 2 + mm(80)),
                       Rotation(0, 0, 0))),
        Cylinder("AntennaBase", mm(8), mm(10),
                 Placement(Vector(mm(main_body_length) \div 2 - mm(40), 0,
                                  mm(main_body_height) \div 2 - mm(5)),
                           Rotation(0, 0, 0))),
        Recompute,
        MultiFuse("AntennaAssembly", <<"AntennaMast", "AntennaTip", "AntennaBase">>),
        Recompute >>,
     ret |-> <<"AntennaAssembly">>]

create_fishing_mechanism ==
    LET front == -(mm(main_body_length) \div 2)
    IN  [code |-> <<
            Box("ServoHousing", mm(40), mm(20), mm(35),
                Placement(Vector(front - mm(50), -mm(10), -175), Rotation(0, 0, 0))),
            Box("ServoHorn", mm(25), mm(5), mm(2),
                Placement(Vector(front - mm(50), -25, mm(18)), Rotation(0, 0, 0))),
            Box("ReleaseGate", mm(30), mm(3), mm(40),
                Placement(Vector(front - mm(70), -15, -mm(20)), Rotation(0, 0, 0))),
            Cylinder("SpoolHolder", mm(25), mm(50),
                     Placement(Vector(front - mm(80), 0, -mm(10)),
                               RotationAxis(Vector(1, 0, 0), 90))),
            Cylinder("LineSpool", mm(20), mm(40),
                     Placement(Vector(front - mm(80), 0, -mm(10)),
                               RotationAxis(Vector(1, 0, 0), 90))),
            Cylinder("LineGuideOuter", mm(5), mm(40),
                     Placement(Vector(front - mm(100), 0, -mm(10)),
                               RotationAxis(Vector(0, 1, 0), 90))),
            Cylinder("LineGuideInner", mm(3), mm(45),
                     Placement(Vector(front - mm(102), 0, -mm(10)),
                               RotationAxis(Vector(0, 1, 0), 90))),
            Recompute,
            Cut("LineGuide", "LineGuideOuter", "LineGuideInner"),
            Recompute,
            Torus("HookRing", mm(8), mm(2),
                  Placement(Vector(front - mm(120), 0, -mm(10)),
                            RotationAxis(Vector(0, 1, 0), 90))),
            Recompute,
            MultiFuse("FishingMechanism",
                      <<"ServoHousing", "ServoHorn", "ReleaseGate", "SpoolHolder",
                        "LineSpool", "LineGuide", "HookRing">>),
            Recompute >>,
         ret |-> <<"FishingMechanism">>]

create_camera_system ==
    LET third == -(mm(main_body_length) \div 3)
        front == -(mm(main_body_length) \div 2)
        hw == mm(main_body_width) \div 2
        hh == mm(main_body_height) \div 2
    IN  [code |-> <<
            Sphere("CameraHousing", mm(20),
                   Placement(Vector(third, 0, -hh - mm(35)), Rotation(0, 0, 0))),
            Cylinder("CameraLens", mm(8), mm(10),
                     Placement(Vector(third, 0, -hh - mm(50)), Rotation(0, 0, 0))),
            Cylinder("GimbalYaw", mm(4), mm(30),
                     Placement(Vector(third, 0, -hh - mm(20)), Rotation(0, 0, 0))),
            Cylinder("LED_Left", mm(10), mm(20),
                     Placement(Vector(front + mm(30), hw - mm(30), 0),
                               RotationAxis(Vector(0, 1, 0), 90))),
            Cylinder("LED_Right", mm(10), mm(20),
                     Placement(Vector(front + mm(30), -hw + mm(30), 0),
                               RotationAxis(Vector(0, 1, 0), 90))),
            Cone("Reflector_Left", mm(12), mm(8), mm(15),
                 Placement(Vector(front + mm(15), hw - mm(30), 0),
                           RotationAxis(Vector(0, 1, 0), -90))),
            Cone("Reflector_Right", mm(12), mm(8), mm(15),
                 Placement(Vector(front + mm(15), -hw + mm(30), 0),
                           RotationAxis(Vector(0, 1, 0), -90))),
            Recompute,
            MultiFuse("CameraSystem",
                      <<"CameraHousing", "CameraLens", "GimbalYaw", "LED_Left",
                        "LED_Right", "Reflector_Left", "Reflector_Right">>),
            Recompute >>,
         ret |-> <<"CameraSystem">>]

\* one side rail of create_mounting_system, side in [-1, 1]
side_rail(side) ==
    Box("SideRail_" \o ToString(side), mm(main_body_length - 120), mm(10), mm(15),
        Placement(Vector(-(mm(main_body_length - 120) \div 2),
                         side * (mm(main_body_width) \div 2 - mm(10)), -75),
                  Rotation(0, 0, 0)))

\* the slot made by the inner loop body for the rail at list index r
\* (rails.index(rail)) and i of range(5)
t_slot(r, i) ==
    LET x_offset == -(mm(main_body_length - 120) \div 2) + mm(20) + i * mm(40)
    IN  Box("TSlot_" \o ToString(r) \o "_" \o ToString(i), mm(8), mm(4), mm(4),
            Placement(Vector(x_offset, -mm(2), mm(main_body_height) \div 2 - mm(7)),
                      Rotation(0, 0, 0)))

create_mounting_system ==
    LET top_rail ==
            Box("TopRail", mm(main_body_length - 120), mm(15), mm(10),
                Placement(Vector(-(mm(main_body_length - 120) \div 2), -75,
                                 mm(main_body_height) \div 2 - mm(10)),
                          Rotation(0, 0, 0)))
        side_rails == <<side_rail(-1), side_rail(1)>>
    IN  [code |-> <<top_rail>> \o side_rails
                  \o <<TSlots(<<top_rail.Name>> \o [k \in 1..2 |-> side_rails[k].Name]),
                       Recompute>>]

\* the module-level statements of create_detailed_drone.py; the list returned
\* by create_mounting_system is the run-time list `rails`
detailed_main(wt) ==
    LET main_body == detailed_create_main_body(wt)
        thrusters == detailed_create_thruster_layout
        glands == create_cable_glands
        battery == create_battery_system
        electronics == detailed_create_electronics
        antenna == detailed_create_antenna
        fishing_mech == create_fishing_mechanism
        camera_system == create_camera_system
        mounting_rails == create_mounting_system
    IN  main_body.code \o thrusters.code \o glands.code \o battery.code
        \o electronics.code \o antenna.code \o fishing_mech.code
        \o camera_system.code \o mounting_rails.code
        \o <<Recompute, SaveAs,
             Export(main_body.ret \o main_body.ribs \o thrusters.ret \o glands.ret
                    \o glands.housings \o battery.cells \o battery.ret
                    \o electronics.ret \o antenna.ret \o fishing_mech.ret
                    \o camera_system.ret, TRUE)>>

-----------------------------------------------------------------------------
(* The script that runs *)

Program(b, wt) ==
    CASE b = "hull" -> hull_main
      [] b = "advanced" -> advanced_main(wt)
      [] b = "detailed" -> detailed_main(wt)
      [] b = "optimized" -> optimized_main(wt)

Programs == [b \in Builds |-> [wt \in WallThicknessValues |-> Program(b, wt)]]

Running == status = "running" /\ pc <= Len(script)

Stmt == script[pc]

-----------------------------------------------------------------------------
(* The document *)

\* the object a Python variable bound to the object named `name` refers to:
\* the one created last under that name; 0 when there is none
Lookup(d, name) ==
    LET S == {i \in 1..Len(d) : d[i].Name = name}
    IN  IF S = {} THEN 0 ELSE CHOOSE i \in S : \A j \in S : j <= i

LookupAll(d, names) == [k \in 1..Len(names) |-> Lookup(d, names[k])]

\* the object doc.addObject returns, after the property assignments
NewObject(d, s, now) ==
    [Name |-> s.Name, Type |-> s.Type, dims |-> s.dims, Placement |-> s.Placement,
     links |-> LookupAll(d, s.links),
     state |-> "Pending", touched |-> TRUE, evals |-> 0, born |-> now, resolvedAt |-> 0]

\* the geometric kernel materializes a primitive of positive volume and
\* rejects the object the fault hits
KernelAccepts(n, i, f) ==
    /\ i # f
    /\ CASE n.Type = "Part::Box" ->
                n.dims.Length > 0 /\ n.dims.Width > 0 /\ n.dims.Height > 0
         [] n.Type = "Part::Sphere" -> n.dims.Radius > 0
         [] n.Type = "Part::Cylinder" -> n.dims.Radius > 0 /\ n.dims.Height > 0
         [] n.Type = "Part::Cone" ->
                /\ n.dims.Radius1 >= 0 /\ n.dims.Radius2 >= 0
                /\ n.dims.Radius1 + n.dims.Radius2 > 0 /\ n.dims.Height > 0
         [] n.Type = "Part::Torus" -> n.dims.Radius1 > 0 /\ n.dims.Radius2 > 0
         [] OTHER -> TRUE

\* an object and the objects it depends on, directly or not
RECURSIVE Closure(_, _)
Closure(d, i) ==
    {i} \cup UNION {Closure(d, d[i].links[k]) :
                       k \in {k \in 1..Len(d[i].links) : d[i].links[k] \in 1..(i - 1)}}

\* an object is recomputed when it is touched or one of the objects it
\* depends on is recomputed in this pass
MustExecute(d, i) == \E j \in Closure(d, i) : d[j].touched

\* every link of the object points to an object created before it
LinksOk(d, i) == \A k \in 1..Len(d[i].links) : d[i].links[k] \in 1..(i - 1)

\* the object has a solid after the pass: it and all it depends on were
\* recomputed with success or kept the solid they had
ResolvedAfter(d, i, f) ==
    \A j \in Closure(d, i) :
        IF MustExecute(d, j)
        THEN LinksOk(d, j) /\ KernelAccepts(d[j], j, f)
        ELSE d[j].state = "Resolved"

\* doc.recompute(): an object whose operand has no solid, or that the kernel
\* rejects, fails and stays touched; the others that must execute resolve
RecomputeDoc(d, f, now) ==
    [i \in 1..Len(d) |->
        IF ~MustExecute(d, i) THEN d[i]
        ELSE IF ResolvedAfter(d, i, f)
        THEN [d[i] EXCEPT !.state = "Resolved", !.touched = FALSE,
                          !.evals = @ + 1, !.resolvedAt = now]
        ELSE [d[i] EXCEPT !.state = "Failed", !.touched = TRUE]]

-----------------------------------------------------------------------------
(* Actions: one per kind of statement *)

\* obj = doc.addObject(...) with its property assignments, or an assignment
\* to a property of an existing object, which touches it
ObjectStep ==
    /\ Running
    /\ Stmt.op \in {"add", "set"}
    /\ doc' = IF Stmt.op = "add"
              THEN Append(doc, NewObject(doc, Stmt, recomputes))
              ELSE LET i == Lookup(doc, Stmt.Name)
                   IN  [doc EXCEPT ![i].Placement = Stmt.Placement, ![i].touched = TRUE]
    /\ pc' = pc + 1
    /\ UNCHANGED <<build, script, wall_thickness, fault, status, recomputes, saved, exported,
                   exportList, stepFile, failedAt, report, rails, rail_i, slot_i>>

\* doc.recompute()
RecomputeStep ==
    /\ Running
    /\ Stmt.op = "recompute"
    /\ doc' = RecomputeDoc(doc, fault, recomputes + 1)
    /\ recomputes' = recomputes + 1
    /\ pc' = pc + 1
    /\ UNCHANGED <<build, script, wall_thickness, fault, status, saved, exported,
                   exportList, stepFile, failedAt, report, rails, rail_i, slot_i>>

\* create_mounting_system, `for rail in rails: for i in range(5): ...
\* rails.append(slot)`: one step starts the iteration, then one step per
\* pass of the inner loop body.  The loop ends when the iterator has passed
\* the end of the list.  Once the list has MaxRails elements the model no
\* longer records the slots that are created: every pass over an element
\* appends five, so the iterator stays inside the list.
TSlotLoop ==
    /\ Running
    /\ Stmt.op = "tslots"
    /\ IF rail_i = 0
       THEN /\ rails' = LookupAll(doc, Stmt.initial)
            /\ rail_i' = 1
            /\ slot_i' = 0
            /\ UNCHANGED <<doc, pc>>
       ELSE IF rail_i > Len(rails)
       THEN /\ pc' = pc + 1
            /\ UNCHANGED <<doc, rails, rail_i, slot_i>>
       ELSE /\ IF Len(rails) < MaxRails
               THEN /\ doc' = Append(doc, NewObject(doc, t_slot(rail_i - 1, slot_i),
                                                    recomputes))
                    /\ rails' = Append(rails, Len(doc) + 1)
                    /\ rail_i' = IF slot_i = 4 THEN rail_i + 1 ELSE rail_i
               ELSE UNCHANGED <<doc, rails, rail_i>>
            /\ slot_i' = IF slot_i = 4 THEN 0 ELSE slot_i + 1
            /\ pc' = pc
    /\ UNCHANGED <<build, script, wall_thickness, fault, status, recomputes, saved, exported,
                   exportList, stepFile, failedAt, report>>

\* doc.saveAs(output_file) returns; print("... saved ...")
SaveOk ==
    /\ Running
    /\ Stmt.op = "save"
    /\ saved' = "yes"
    /\ report' = Append(report, [what |-> "saved", assembly |-> "all"])
    /\ pc' = pc + 1
    /\ UNCHANGED <<build, script, wall_thickness, fault, status, doc, recomputes, exported,
                   exportList, stepFile, failedAt, rails, rail_i, slot_i>>

\* doc.saveAs(output_file) raises: the statement is in no try block
SaveRaises ==
    /\ Running
    /\ Stmt.op = "save"
    /\ saved' = "failed"
    /\ status' = "aborted"
    /\ UNCHANGED <<build, script, wall_thickness, fault, pc, doc, recomputes, exported,
                   exportList, stepFile, failedAt, report, rails, rail_i, slot_i>>

\* C12 mutant: the list keeps only the objects that have a solid
ExportParts_OnlyResolved ==
    LET all == LookupAll(doc, Stmt.parts) \o (IF Stmt.withRails THEN rails ELSE <<>>)
        HasSolid(i) == i # 0 /\ doc[i].state = "Resolved"
    IN  SelectSeq(all, HasSolid)

\* the list built inside the try block: all_parts / all_components
ExportParts == LookupAll(doc, Stmt.parts) \o (IF Stmt.withRails THEN rails ELSE <<>>)

\* the objects of a list that have a solid
RECURSIVE WithSolid(_, _)
WithSolid(d, list) ==
    IF list = <<>> THEN <<>>
    ELSE (IF Head(list) # 0 /\ d[Head(list)].state = "Resolved"
          THEN <<Head(list)>> ELSE <<>>) \o WithSolid(d, Tail(list))

\* try: Part.export(all_parts, step_file); print("... exported ...")
ExportOk ==
    /\ Running
    /\ Stmt.op = "export"
    /\ exportList' = ExportParts
    /\ stepFile' = WithSolid(doc, ExportParts)
    /\ exported' = "yes"
    /\ report' = Append(report, [what |-> "step_exported", assembly |-> "all"])
    /\ pc' = pc + 1
    /\ UNCHANGED <<build, script, wall_thickness, fault, status, doc, recomputes, saved,
                   failedAt, rails, rail_i, slot_i>>

\* C2 mutant: Part.export outside any try block, its exception ends the script
ExportRaises_Unhandled ==
    /\ Running
    /\ Stmt.op = "export"
    /\ exportList' = ExportParts
    /\ \E k \in 1..Len(ExportParts) :
          /\ failedAt' = k
          /\ \E w \in {0, k - 1} : stepFile' = WithSolid(doc, SubSeq(ExportParts, 1, w))
    /\ exported' = "failed"
    /\ status' = "aborted"
    /\ UNCHANGED <<build, script, wall_thickness, fault, pc, doc, recomputes, saved, report,
                   rails, rail_i, slot_i>>

\* Part.export raises while writing the k-th object of the list; what it
\* left in the file is nothing or the objects before the k-th.
\* except Exception as e: print(f"STEP export error: {e}")
ExportRaises ==
    /\ Running
    /\ Stmt.op = "export"
    /\ exportList' = ExportParts
    /\ \E k \in 1..Len(ExportParts) :
          /\ failedAt' = k
          /\ \E w \in {0, k - 1} : stepFile' = WithSolid(doc, SubSeq(ExportParts, 1, w))
    /\ exported' = "failed"
    /\ report' = Append(report, [what |-> "step_error", assembly |-> "all"])
    /\ pc' = pc + 1
    /\ UNCHANGED <<build, script, wall_thickness, fault, status, doc, recomputes, saved,
                   rails, rail_i, slot_i>>

\* the script runs off its last statement (the specification printout)
Finish ==
    /\ status = "running"
    /\ pc > Len(script)
    /\ status' = "done"
    /\ UNCHANGED <<build, script, wall_thickness, fault, pc, doc, recomputes, saved, exported,
                   exportList, stepFile, failedAt, report, rails, rail_i, slot_i>>

\* a negative length assigned to a length property may be refused by the
\* property itself: the assignment raises, in no try block
AssignRaises ==
    /\ Running
    /\ Stmt.op = "add"
    /\ \E k \in DOMAIN Stmt.dims : Stmt.dims[k] < 0
    /\ status' = "aborted"
    /\ UNCHANGED <<build, script, wall_thickness, fault, pc, doc, recomputes, saved, exported,
                   exportList, stepFile, failedAt, report, rails, rail_i, slot_i>>

-----------------------------------------------------------------------------
(* Specifications *)

InitWith(wts, faults) ==
    /\ build \in Builds
    /\ wall_thickness \in wts
    /\ fault \in faults
    /\ script = Programs[build][wall_thickness]
    /\ pc = 1
    /\ status = "running"
    /\ doc = <<>>
    /\ recomputes = 0
    /\ saved = "no"
    /\ exported = "no"
    /\ exportList = <<>>
    /\ stepFile = <<>>
    /\ failedAt = 0
    /\ report = <<>>
    /\ rails = <<>>
    /\ rail_i = 0
    /\ slot_i = 0

\* the scripts as written
Init == InitWith({WallThicknessInSource}, 0..MaxFault)

Next ==
    \/ ObjectStep
    \/ RecomputeStep
    \/ TSlotLoop
    \/ SaveOk
    \/ SaveRaises
    \/ ExportOk
    \/ ExportRaises
    \/ Finish

Spec == Init /\ [][Next]_vars

\* the scripts as written, with a kernel that rejects nothing; the
\* interpreter runs a script to its end: it never pauses on its own
InitNoFault == InitWith({WallThicknessInSource}, {0})

FairSpec == InitNoFault /\ [][Next]_vars /\ WF_vars(Next)

\* the scripts with wall_thickness edited
InitParams == InitWith(WallThicknessValues, {0})

NextParams == Next \/ AssignRaises

SpecParams == InitParams /\ [][NextParams]_vars

-----------------------------------------------------------------------------
(* Vocabulary of the properties *)

Objects == 1..Len(doc)

IsPrimitive(i) == doc[i].Type \in PrimitiveTypes

IsBoolean(i) == doc[i].Type \in BooleanTypes

Operands(i) == {doc[i].links[k] : k \in 1..Len(doc[i].links)}

Range(seq) == {seq[k] : k \in 1..Len(seq)}

\* the positions of the script where a list is handed to Part.export
ExportStmts == {k \in 1..Len(script) : script[k].op = "export"}

\* the kernel fault has hit an object of the document
FaultStruck == fault \in Objects /\ doc[fault].state = "Failed"

\* the object does not depend on the object the fault hits
Unrelated(i) == fault \notin Closure(doc, i)

-----------------------------------------------------------------------------
(* C1: every build terminates: each of the four scripts eventually reaches *)
(* its document-save step (doc.saveAs is attempted).  Checked under        *)
(* FairSpec, where the interpreter keeps executing statements.             *)
C1_EveryBuildReachesSave == <>(saved # "no")

-----------------------------------------------------------------------------
(* C2: a failing STEP export never invalidates the saved document: the     *)
(* export is attempted only after the document was saved, and when it      *)
(* raises the document is still saved and the script goes on with the      *)
(* statement after the try block instead of aborting.                      *)
C2_ExportFailureKeepsDocument ==
    /\ exported # "no" => saved = "yes"
    /\ exported = "failed" =>
          /\ saved = "yes"
          /\ status \in {"running", "done"}
          /\ pc = Len(script) + 1

\* C2 witness: an export raised and the script ran to its end
C2_Witness == exported = "failed" /\ saved = "yes" /\ status = "done"

-----------------------------------------------------------------------------
(* C3: a partial export is reported per assembly: when the export of one   *)
(* assembly fails, every other assembly of the list that has a solid is    *)
(* written to the STEP file and the failure is reported against the        *)
(* failing assembly.                                                       *)
C3_PartialExportPerAssembly ==
    exported = "failed" =>
        /\ \A k \in 1..Len(exportList) :
              (k # failedAt /\ exportList[k] # 0
               /\ doc[exportList[k]].state = "Resolved")
                  => exportList[k] \in Range(stepFile)
        /\ \E r \in Range(report) :
              /\ r.what = "step_error"
              /\ exportList[failedAt] # 0
              /\ r.assembly = doc[exportList[failedAt]].Name

-----------------------------------------------------------------------------
(* C4: a failure of doc.saveAs is caught and reported as the failure of    *)
(* that artifact; it does not abort the build.                             *)
C4_SaveFailureCaught ==
    saved = "failed" =>
        /\ status # "aborted"
        /\ \E r \in Range(report) : r.what = "save_error"

-----------------------------------------------------------------------------
(* C5: an invalid parameter set is rejected before any geometry work: with *)
(* a wall thickness that leaves no cavity (2 * wall_thickness >=           *)
(* main_body_height, as with 200 and 180) a drone build creates no object  *)
(* and makes no recompute.  Checked under SpecParams.                      *)
C5_InvalidParametersRejectedFirst ==
    (build # "hull" /\ 2 * wall_thickness >= main_body_height)
        => (Len(doc) = 0 /\ recomputes = 0)

-----------------------------------------------------------------------------
(* C6 as claimed: every shape parameter of every primitive object is       *)
(* strictly positive.                                                      *)
C6_AllShapeParametersPositive ==
    \A i \in Objects :
        IsPrimitive(i) => \A k \in DOMAIN doc[i].dims : doc[i].dims[k] > 0

(* C6 as amended: every shape parameter of every primitive object is       *)
(* strictly positive, except Radius2 of the cone AntennaTip, which is 0.   *)
C6_ShapeParametersPositiveButConeTip ==
    \A i \in Objects :
        IsPrimitive(i) =>
            \A k \in DOMAIN doc[i].dims :
                \/ doc[i].dims[k] > 0
                \/ /\ doc[i].Type = "Part::Cone"
                   /\ doc[i].Name = "AntennaTip"
                   /\ k = "Radius2"
                   /\ doc[i].dims[k] = 0

\* C6 witness: a build with the antenna cone in its document has finished
C6_Witness ==
    /\ status = "done"
    /\ \E i \in Objects : doc[i].Name = "AntennaTip" /\ doc[i].dims.Radius2 = 0

-----------------------------------------------------------------------------
(* C7: operands before dependents: every operand of a Boolean object was   *)
(* created before it and was evaluated by a recompute made before the      *)
(* Boolean object was created: it is resolved and up to date, or it failed *)
(* because of the kernel fault.  No operand is ever Pending.               *)
C7_OperandsBeforeDependents ==
    \A i \in Objects :
        IsBoolean(i) =>
            \A o \in Operands(i) :
                /\ o \in 1..(i - 1)
                /\ \/ /\ doc[o].state = "Resolved"
                      /\ ~doc[o].touched
                      /\ doc[o].resolvedAt \in 1..doc[i].born
                   \/ /\ doc[o].state = "Failed"
                      /\ ~Unrelated(o)

\* C7 witness: a Boolean object was just created, not yet evaluated, over
\* resolved operands, and another one has been evaluated
C7_Witness ==
    /\ \E i \in Objects :
          /\ IsBoolean(i) /\ doc[i].state = "Pending"
          /\ \A o \in Operands(i) : doc[o].state = "Resolved"
    /\ \E i \in Objects : IsBoolean(i) /\ doc[i].state = "Resolved"

-----------------------------------------------------------------------------
(* C8: each object is resolved at most once in a build: no recompute       *)
(* evaluates again an object that is resolved, and once the script is done *)
(* every object the fault does not reach was resolved exactly once.        *)
C8_ResolvedOnce ==
    /\ \A i \in Objects : doc[i].evals <= 1
    /\ status = "done" =>
          \A i \in Objects : Unrelated(i) => doc[i].evals = 1

\* C8 witness: an object resolved by one recompute went through later ones
C8_Witness ==
    \E i \in Objects :
        /\ doc[i].state = "Resolved"
        /\ doc[i].evals = 1
        /\ doc[i].resolvedAt + 2 <= recomputes

-----------------------------------------------------------------------------
(* C9: partial-failure isolation: when the kernel fault struck one         *)
(* sub-assembly and the script is done, with no failure other than those   *)
(* the struck sub-assembly causes, every object that does not depend on    *)
(* the struck one is resolved, the document is saved and every such object *)
(* of the export list is in the STEP file.                                 *)
C9_PartialFailureIsolation ==
    ( /\ status = "done"
      /\ FaultStruck
      /\ exported = "failed" =>
            (exportList[failedAt] # 0 /\ ~Unrelated(exportList[failedAt])) )
    =>
    ( /\ saved = "yes"
      /\ \A i \in Objects : Unrelated(i) => doc[i].state = "Resolved"
      /\ \A k \in 1..Len(exportList) :
            (exportList[k] # 0 /\ Unrelated(exportList[k]))
                => exportList[k] \in Range(stepFile) )

-----------------------------------------------------------------------------
(* C10: the thruster layout of each drone variant makes exactly 6 thruster *)
(* assemblies, the declared num_thrusters, under 6 distinct names; once    *)
(* all are made each is a top-level object and the 6 placements (position, *)
(* rotation) handed to the thruster builder, which are the placements of   *)
(* the motor housings, are pairwise distinct.                              *)
ThrusterNames ==
    CASE build = "advanced" -> advanced_create_thruster_layout.ret
      [] build = "detailed" -> detailed_create_thruster_layout.ret
      [] build = "optimized" -> create_thrusters.ret
      [] OTHER -> <<>>

ThrusterAssemblies == {i \in Objects : doc[i].Name \in Range(ThrusterNames)}

LayoutMade == \A n \in Range(ThrusterNames) : Lookup(doc, n) # 0

C10_SixDistinctThrusters ==
    build # "hull" =>
        /\ Len(ThrusterNames) = num_thrusters
        /\ Cardinality(Range(ThrusterNames)) = num_thrusters
        /\ Cardinality(ThrusterAssemblies) <= num_thrusters
        /\ LayoutMade =>
              /\ Cardinality(ThrusterAssemblies) = num_thrusters
              /\ \A i \in ThrusterAssemblies :
                    /\ doc[i].Type = "Part::MultiFuse"
                    /\ \A j \in Objects : i \notin Operands(j)
              /\ \A i, j \in ThrusterAssemblies :
                    i # j => doc[doc[i].links[1]].Placement
                             # doc[doc[j].links[1]].Placement

\* C10 witness: a drone build is done with its six thruster assemblies resolved
C10_Witness ==
    /\ build = "advanced"
    /\ status = "done"
    /\ Cardinality(ThrusterAssemblies) = 6
    /\ \A i \in ThrusterAssemblies : doc[i].state = "Resolved"

-----------------------------------------------------------------------------
(* C11: within one build no two objects are created under the same name:   *)
(* every doc.addObject call uses a name no earlier call of the build used, *)
(* names built in loops and from per-instance suffixes included.           *)
C11_UniqueNames ==
    \A i, j \in Objects : i # j => doc[i].Name # doc[j].Name

\* C11 witness: the slots of the mounting rails, named from two loop
\* indices, are in a document next to the thrusters named from a suffix
C11_Witness ==
    /\ build = "detailed"
    /\ Lookup(doc, "TSlot_2_4") # 0
    /\ Lookup(doc, "Thruster_BV") # 0
    /\ Lookup(doc, "Rib_V_-1") # 0

-----------------------------------------------------------------------------
(* C13: the dependency graph of the objects is acyclic in every state:     *)
(* every operand reference of a Boolean object points to an object created *)
(* strictly earlier, so no object is among the objects its operands depend *)
(* on.                                                                     *)
C13_Acyclic ==
    \A i \in Objects :
        /\ \A k \in 1..Len(doc[i].links) : doc[i].links[k] \in 1..(i - 1)
        /\ i \notin UNION {Closure(doc, o) : o \in Operands(i) \cap Objects}

\* C13 witness: a Cut of two fusions of primitives, a graph three levels deep
C13_Witness ==
    \E i \in Objects :
        /\ doc[i].Type = "Part::Cut"
        /\ \A o \in Operands(i) :
              /\ o \in Objects
              /\ doc[o].Type = "Part::MultiFuse"
              /\ Operands(o) # {}

-----------------------------------------------------------------------------
(* C14: every Boolean object is well-formed: a MultiFuse has at least two  *)
(* operands, a Cut has exactly a base and a tool, and the operands of one  *)
(* Boolean object are pairwise distinct existing objects.                  *)
C14_WellFormedBooleans ==
    \A i \in Objects :
        IsBoolean(i) =>
            /\ doc[i].Type = "Part::MultiFuse" => Len(doc[i].links) >= 2
            /\ doc[i].Type = "Part::Cut" => Len(doc[i].links) = 2
            /\ Operands(i) \subseteq Objects
            /\ Cardinality(Operands(i)) = Len(doc[i].links)

\* C14 witness: a finished build holding a fusion of more than two operands
\* and a Cut
C14_Witness ==
    /\ status = "done"
    /\ \E i \in Objects : doc[i].Type = "Part::MultiFuse" /\ Len(doc[i].links) > 2
    /\ \E i \in Objects : doc[i].Type = "Part::Cut"

-----------------------------------------------------------------------------
(* C15: the list handed to Part.export holds only top-level objects: no    *)
(* exported object is an operand of a Boolean object of the build, and no  *)
(* object is in the list twice.  The same holds of the list the script     *)
(* writes in its export statement, whether or not the run gets there.      *)
C15_ExportOnlyTopLevel ==
    /\ \A k \in 1..Len(exportList) :
          /\ exportList[k] \in Objects
          /\ \A j \in Objects : exportList[k] \notin Operands(j)
    /\ Cardinality(Range(exportList)) = Len(exportList)
    /\ \A k \in ExportStmts :
          /\ Cardinality(Range(script[k].parts)) = Len(script[k].parts)
          /\ \A j \in Objects : \A o \in Operands(j) \cap Objects :
                doc[o].Name \notin Range(script[k].parts)
          /\ script[k].withRails =>
                \A j \in Objects : Range(rails) \cap Operands(j) = {}

\* C15 witness: a list of more than one object was handed to Part.export
C15_Witness == exported # "no" /\ Len(exportList) > 1

-----------------------------------------------------------------------------
(* C16: resolution precedes persistence: from the moment doc.saveAs is     *)
(* called no object of the document is Pending: each was evaluated by an   *)
(* earlier recompute, and resolved unless the kernel fault reaches it; the *)
(* export is attempted only after doc.saveAs has returned.                 *)
C16_ResolutionPrecedesPersistence ==
    /\ saved # "no" =>
          \A i \in Objects :
              /\ doc[i].state # "Pending"
              /\ Unrelated(i) => (doc[i].state = "Resolved" /\ ~doc[i].touched)
    /\ (exported # "no" \/ exportList # <<>>) => saved = "yes"

\* C16 witness: a document with objects was saved
C16_Witness == saved = "yes" /\ Len(doc) > 0 /\ recomputes > 0

-----------------------------------------------------------------------------
(* C12: determinism: the objects a build creates and the list it hands to  *)
(* Part.export are a function of the build and of its parameter values     *)
(* alone.  Whatever the kernel and the file system do in a run, the i-th   *)
(* object created has the name, type, shape parameters, placement and      *)
(* operand list that the i-th doc.addObject of the script prescribes (for  *)
(* the slots of the mounting rails: the slot of its rank), and the list    *)
(* exported is the list the export statement writes; so two runs of one    *)
(* build from the same values create the same sequence and export the same *)
(* list.                                                                   *)
IsAdd(s) == s.op = "add"

Prescribed == SelectSeq(script, IsAdd)

PrescribedAt(pres, i) ==
    IF i <= Len(pres) THEN pres[i]
    ELSE t_slot((i - Len(pres) - 1) \div 5, (i - Len(pres) - 1) % 5)

-----------------------------------------------------------------------------
(* C17: the hull-shell builder of each drone variant.                      *)
BodyBuilder(b, wt) ==
    CASE b = "advanced" -> advanced_create_main_body(wt)
      [] b = "detailed" -> detailed_create_main_body(wt)
      [] b = "optimized" -> create_body(wt)
      [] OTHER -> [code |-> <<>>, ret |-> <<>>]

\* the names of the objects the hull-shell builder creates, callees included
BodyNamesOf ==
    [b \in Builds |-> [wt \in WallThicknessValues |->
        {s.Name : s \in Range(SelectSeq(BodyBuilder(b, wt).code, IsAdd))}]]

BodyNames == BodyNamesOf[build][wall_thickness]

\* the list of ribs create_main_body of the detailed variant returns
ReturnedRibs ==
    [wt \in WallThicknessValues |-> Range(detailed_create_main_body(wt).ribs)]

BodyBuilt == build # "hull" /\ \A n \in BodyNames : Lookup(doc, n) # 0

\* the objects of the hull-shell builder that no object takes as an operand
BodyTopLevel ==
    LET names == BodyNames
    IN  {i \in Objects : doc[i].Name \in names
                         /\ \A j \in Objects : i \notin Operands(j)}

NamesOf(list) == [k \in 1..Len(list) |-> IF list[k] \in Objects
                                         THEN doc[list[k]].Name ELSE ""]

\* HollowBody = Cut(MultiFuse(CenterBody, Nose, Tail),
\*                  MultiFuse(CenterInner, NoseInner, TailInner))
HollowBodyStructure ==
    LET h == Lookup(doc, "HollowBody")
    IN  /\ h # 0
        /\ doc[h].Type = "Part::Cut"
        /\ Len(doc[h].links) = 2
        /\ \A k \in 1..2 : doc[h].links[k] \in Objects
        /\ doc[doc[h].links[1]].Type = "Part::MultiFuse"
        /\ NamesOf(doc[doc[h].links[1]].links) = <<"CenterBody", "Nose", "Tail">>
        /\ doc[doc[h].links[2]].Type = "Part::MultiFuse"
        /\ NamesOf(doc[doc[h].links[2]].links)
              = <<"CenterInner", "NoseInner", "TailInner">>

RibNames == {"Rib_V_-1", "Rib_H_-1", "Rib_V_0", "Rib_H_0", "Rib_V_1", "Rib_H_1"}

(* C17 as claimed: in every drone variant, once the hull-shell builder has *)
(* created its objects, exactly one of them is top-level: HollowBody, the  *)
(* Cut of the fusion of CenterBody, Nose and Tail by the fusion of         *)
(* CenterInner, NoseInner and TailInner; every other one is an operand.    *)
C17_OneTopLevelHullNode ==
    BodyBuilt =>
        /\ HollowBodyStructure
        /\ BodyTopLevel = {Lookup(doc, "HollowBody")}

(* C17 as amended: in every drone variant HollowBody has that structure;   *)
(* in the advanced and optimized variants it is the only top-level object  *)
(* of the hull-shell builder; in the detailed variant create_main_body     *)
(* also calls create_internal_ribs, whose six rib boxes are top-level      *)
(* objects next to HollowBody and are returned with it.                    *)
C17_HullNodeAndRibs ==
    BodyBuilt =>
        /\ HollowBodyStructure
        /\ {doc[i].Name : i \in BodyTopLevel}
              = IF build = "detailed" THEN {"HollowBody"} \cup RibNames
                ELSE {"HollowBody"}
        /\ Cardinality(BodyTopLevel)
              = IF build = "detailed" THEN 1 + Cardinality(RibNames) ELSE 1
        /\ build = "detailed" =>
              ReturnedRibs[wall_thickness] = RibNames

\* C17 witness: the detailed build went past its hull-shell builder, ribs
\* included, and made its thrusters
C17_Witness ==
    /\ build = "detailed"
    /\ BodyBuilt
    /\ Cardinality(BodyTopLevel) = 7
    /\ Lookup(doc, "Thruster_BV") # 0

-----------------------------------------------------------------------------
(* C18: objects are immutable once resolved: in no step of a build does an *)
(* object that a doc.recompute() has resolved get a shape parameter, its   *)
(* placement or an operand link assigned again; it keeps its name, type,   *)
(* parameters, placement and links, and stays resolved and untouched.      *)
ResolvedKept ==
    \A i \in Objects :
        doc[i].state = "Resolved" =>
            /\ i <= Len(doc')
            /\ doc'[i].Name = doc[i].Name
            /\ doc'[i].Type = doc[i].Type
            /\ doc'[i].dims = doc[i].dims
            /\ doc'[i].Placement = doc[i].Placement
            /\ doc'[i].links = doc[i].links
            /\ doc'[i].state = "Resolved"
            /\ ~doc'[i].touched

C18_ResolvedImmutable == [][ResolvedKept]_vars

\* C18 witness: a connector housing was given the placement of a gland
\* resolved before, and the gland kept it
C18_Witness ==
    LET g == Lookup(doc, "PowerGland")
        h == Lookup(doc, "ConnectorHousing_0")
    IN  /\ g # 0 /\ h # 0
        /\ doc[g].state = "Resolved"
        /\ doc[g].resolvedAt <= doc[h].born
        /\ doc[h].state = "Resolved"
        /\ doc[h].Placement = doc[g].Placement
        /\ doc[g].Placement # IdentityPlacement

-----------------------------------------------------------------------------
(* Boxes and spheres in space: a box spans from its placement base over    *)
(* its Length, Width and Height along x, y and z; a sphere is centred on   *)
(* its placement base.                                                     *)
BoxMin(i, axis) == doc[i].Placement.Base[axis]

BoxSize(i, axis) ==
    CASE axis = 1 -> doc[i].dims.Length
      [] axis = 2 -> doc[i].dims.Width
      [] axis = 3 -> doc[i].dims.Height

BoxMax(i, axis) == BoxMin(i, axis) + BoxSize(i, axis)

-----------------------------------------------------------------------------
(* C19: the hull cavity is the outer hull offset inward by exactly         *)
(* wall_thickness: once the inner shapes of a drone hull exist, CenterInner *)
(* lies wall_thickness inside CenterBody on all six faces and, along the   *)
(* longitudinal axis x, the tips of NoseInner and TailInner lie exactly    *)
(* wall_thickness inside the tips of Nose and Tail.                        *)
C19_CavityOffsetByWallThickness ==
    LET o == Lookup(doc, "CenterBody")
        c == Lookup(doc, "CenterInner")
        n == Lookup(doc, "Nose")
        ni == Lookup(doc, "NoseInner")
        t == Lookup(doc, "Tail")
        ti == Lookup(doc, "TailInner")
    IN  (build # "hull" /\ c # 0 /\ ni # 0 /\ ti # 0) =>
            /\ \A axis \in 1..3 :
                  /\ BoxMin(c, axis) - BoxMin(o, axis) = mm(wall_thickness)
                  /\ BoxMax(o, axis) - BoxMax(c, axis) = mm(wall_thickness)
            /\ (doc[ni].Placement.Base[1] - doc[ni].dims.Radius)
                  - (doc[n].Placement.Base[1] - doc[n].dims.Radius)
                  = mm(wall_thickness)
            /\ (doc[t].Placement.Base[1] + doc[t].dims.Radius)
                  - (doc[ti].Placement.Base[1] + doc[ti].dims.Radius)
                  = mm(wall_thickness)

-----------------------------------------------------------------------------
(* C20: in the catamaran hull the boxes Pontoon_Left and Pontoon_Right     *)
(* occupy disjoint regions, their centres are pontoon_spacing apart along  *)
(* the width axis y, the axis of the box Width, and they coincide along    *)
(* the length axis x.                                                      *)
C20_PontoonsApartAlongWidth ==
    LET l == Lookup(doc, "Pontoon_Left")
        r == Lookup(doc, "Pontoon_Right")
    IN  (build = "hull" /\ l # 0 /\ r # 0) =>
            /\ \E axis \in 1..3 :
                  \/ BoxMax(l, axis) <= BoxMin(r, axis)
                  \/ BoxMax(r, axis) <= BoxMin(l, axis)
            /\ (BoxMin(r, 2) + BoxMax(r, 2)) - (BoxMin(l, 2) + BoxMax(l, 2))
                  = 2 * mm(pontoon_spacing)
            /\ BoxMin(l, 1) = BoxMin(r, 1)
            /\ BoxMax(l, 1) = BoxMax(r, 1)

-----------------------------------------------------------------------------
\* FreeCAD.Rotation.multVec(Vector(0, 0, 1)) in thousandths: the direction of
\* a cylinder's axis under its Placement's rotation; angles taken modulo 360
RotatedAxis(rot) ==
    IF rot[1] = "axis"
    THEN LET a == rot[3] % 360
         IN  CASE rot[2] = <<0, 1, 0>> -> <<SinMilli(a), 0, CosMilli(a)>>
               [] rot[2] = <<1, 0, 0>> -> <<0, -SinMilli(a), CosMilli(a)>>
               [] OTHER -> <<0, 0, 1000>>
    ELSE LET y == rot[2] % 360
             p == rot[3] % 360
             r == rot[4] % 360
             vx == (CosMilli(r) * SinMilli(p)) \div 1000
             vy == -SinMilli(r)
             vz == (CosMilli(r) * CosMilli(p)) \div 1000
         IN  <<(vx * CosMilli(y) - vy * SinMilli(y)) \div 1000,
               (vx * SinMilli(y) + vy * CosMilli(y)) \div 1000,
               vz>>

\* base displaced by len along the direction axis (thousandths)
Displaced(base, axis, len) == [k \in 1..3 |-> base[k] + (axis[k] * len) \div 1000]

\* the motor housing of a thruster assembly: the first shape of its fusion
HousingOf(a) == doc[a].links[1]

\* the guard ring of a thruster assembly: the Cut among its shapes
GuardRingOf(a) == CHOOSE j \in Operands(a) : doc[j].Type = "Part::Cut"

(* C21: for every thruster assembly, rotated about Y or not, the propeller *)
(* guard ring sits at the end of the motor housing: the base point of the  *)
(* ring's outer cylinder equals the housing's base point displaced by      *)
(* thruster_length along the housing's own rotated axis.                   *)
C21_GuardAtHousingEnd ==
    \A a \in ThrusterAssemblies :
        LET h == HousingOf(a)
            outer == doc[GuardRingOf(a)].links[1]
        IN  doc[outer].Placement.Base
               = Displaced(doc[h].Placement.Base,
                           RotatedAxis(doc[h].Placement.Rotation),
                           mm(thruster_length))

-----------------------------------------------------------------------------
\* the Cut nodes whose Base and Tool are both cylinders
CylinderCuts ==
    {i \in Objects : /\ doc[i].Type = "Part::Cut"
                     /\ \A k \in 1..2 : doc[doc[i].links[k]].Type = "Part::Cylinder"}

\* 1000 * the coordinate of point along the direction axis (thousandths)
Along(axis, point) == axis[1] * point[1] + axis[2] * point[2] + axis[3] * point[3]

(* C22: every Cut of a cylinder from a cylinder (propeller guard rings and *)
(* line-guide tubes) has the outer shape as Base and the inner shape as    *)
(* Tool: the tool has the rotation of the base, a strictly smaller radius  *)
(* and a strictly greater height, and along the common axis it starts no   *)
(* later and ends no earlier than the base, so the bore goes through the   *)
(* full length of the base.                                                *)
C22_BoreThroughBase ==
    \A i \in CylinderCuts :
        LET base == doc[doc[i].links[1]]
            tool == doc[doc[i].links[2]]
            axis == RotatedAxis(base.Placement.Rotation)
            from == Along(axis, tool.Placement.Base) - Along(axis, base.Placement.Base)
        IN  /\ tool.Placement.Rotation = base.Placement.Rotation
            /\ tool.dims.Radius < base.dims.Radius
            /\ tool.dims.Height > base.dims.Height
            /\ from <= 0
            /\ from + 1000 * tool.dims.Height >= 1000 * base.dims.Height

\* C22 witness: the advanced build is done with the guard ring of a rotated
\* thruster and the line-guide tube cut and resolved
C22_Witness ==
    LET g == Lookup(doc, "GuardRing_FrontLeft")
        l == Lookup(doc, "LineGuideTube")
    IN  /\ build = "advanced"
        /\ status = "done"
        /\ g \in CylinderCuts
        /\ l \in CylinderCuts
        /\ doc[g].state = "Resolved"
        /\ doc[l].state = "Resolved"

-----------------------------------------------------------------------------
\* the objects the loop of create_mounting_system has appended to `rails`
\* after the top rail and the two side rails
Slots == {rails[k] : k \in 4..Len(rails)}

(* C23: each T-slot TSlot_r_i of the mounting system lies on the rail r it *)
(* is named for: slots are made only for the top rail and the two side     *)
(* rails (r in 0..2, i in 0..4) and the slot's placement lies within the   *)
(* extent of rail r along the Y and Z axes.                                *)
C23_SlotsOnTheirRail ==
    \A j \in Slots :
        \E r \in 0..2, i \in 0..4 :
            /\ doc[j].Name = t_slot(r, i).Name
            /\ \A axis \in 2..3 :
                  /\ BoxMin(rails[r + 1], axis) <= doc[j].Placement.Base[axis]
                  /\ doc[j].Placement.Base[axis] <= BoxMax(rails[r + 1], axis)

-----------------------------------------------------------------------------
\* f"ESC_{i}" and f"ThrusterGland_{i}" for the indexes a loop over up to
\* twice the declared number of thrusters can give
ESCNames == {"ESC_" \o ToString(i) : i \in 0..(2 * num_thrusters)}

ThrusterGlandNames == {"ThrusterGland_" \o ToString(i) : i \in 0..(2 * num_thrusters)}

Named(names) == {i \in Objects : doc[i].Name \in names}

\* every doc.addObject of the script for one of the names has been executed
AllMade(names) ==
    /\ \E k \in 1..Len(script) : IsAdd(script[k]) /\ script[k].Name \in names
    /\ \A k \in 1..Len(script) :
          (IsAdd(script[k]) /\ script[k].Name \in names) => k < pc

(* C24: one electronic speed controller per thruster: in the detailed and  *)
(* optimized builds there are never more ESC nodes than thruster           *)
(* assemblies and once the ESC loop is through there are as many; in the   *)
(* detailed build the same holds of the thruster cable glands.             *)
C24_OneESCPerThruster ==
    build \in {"detailed", "optimized"} =>
        /\ Cardinality(Named(ESCNames)) <= Cardinality(ThrusterAssemblies)
        /\ AllMade(ESCNames) =>
              Cardinality(Named(ESCNames)) = Cardinality(ThrusterAssemblies)
        /\ build = "detailed" =>
              /\ Cardinality(Named(ThrusterGlandNames)) <= Cardinality(ThrusterAssemblies)
              /\ AllMade(ThrusterGlandNames) =>
                    Cardinality(Named(ThrusterGlandNames))
                       = Cardinality(ThrusterAssemblies)

\* C24 witness: the detailed build has made its thrusters, its thruster
\* glands and its ESCs
C24_Witness ==
    /\ build = "detailed"
    /\ AllMade(ThrusterGlandNames)
    /\ AllMade(ESCNames)
    /\ Cardinality(ThrusterAssemblies) = num_thrusters
    /\ Cardinality(Named(ESCNames)) = num_thrusters

-----------------------------------------------------------------------------
\* the objects of the document that are no operand of a Boolean object
TopLevel == {i \in Objects : \A j \in Objects : i \notin Operands(j)}

(* C25: every top-level object of a build is exported: once the list has   *)
(* been handed to Part.export, each object of the document that is not an  *)
(* operand of a Boolean object is in that list, so no object is created    *)
(* and then neither consumed nor exported.                                 *)
C25_EveryTopLevelExported ==
    exportList # <<>> => TopLevel \subseteq Range(exportList)

-----------------------------------------------------------------------------
\* output_file / output: the path handed to doc.saveAs by each script
output_file(b) ==
    CASE b = "hull" ->
            "/home/ymizushi/Develop/ymizushi/fishdrone/fishing_drone_hull.FCStd"
      [] b = "advanced" ->
            "/home/ymizushi/Develop/ymizushi/fishdrone/fishing_drone_advanced.FCStd"
      [] b = "detailed" ->
            "/home/ymizushi/Develop/ymizushi/fishdrone/fishing_drone_detailed.FCStd"
      [] b = "optimized" ->
            "/home/ymizushi/Develop/ymizushi/fishdrone/fishing_drone_detailed.FCStd"

\* step_file / step_out: the path handed to Part.export by each script
step_file(b) ==
    CASE b = "hull" ->
            "/home/ymizushi/Develop/ymizushi/fishdrone/fishing_drone_hull.step"
      [] b = "advanced" ->
            "/home/ymizushi/Develop/ymizushi/fishdrone/fishing_drone_advanced.step"
      [] b = "detailed" ->
            "/home/ymizushi/Develop/ymizushi/fishdrone/fishing_drone_detailed.step"
      [] b = "optimized" ->
            "/home/ymizushi/Develop/ymizushi/fishdrone/fishing_drone_detailed.step"

\* the paths the run has written so far: the document once doc.saveAs has
\* returned, the interchange file once Part.export has been called
Written ==
    (IF saved = "yes" THEN {output_file(build)} ELSE {})
    \cup (IF exported # "no" THEN {step_file(build)} ELSE {})

\* the paths the script b names as its artifacts
ArtifactsOf(b) == {output_file(b), step_file(b)}

(* C26: a build writes only its own artifacts: no path written by a run of *)
(* one build script is the document path or the interchange path of        *)
(* another build script, so a run of one script leaves the artifacts of    *)
(* every other script as they were.                                        *)
C26_OwnArtifactsOnly ==
    \A b \in Builds \ {build} : Written \cap ArtifactsOf(b) = {}

-----------------------------------------------------------------------------
\* the objects one call of the thruster builder has made: the assembly and
\* all it depends on
InstanceOf(a) == Closure(doc, a)

\* the position of a member among the members of its instance, in the
\* order of creation
RankIn(members, m) == Cardinality({x \in members : x < m})

\* what an instance is made of, names and placements left out: for each
\* member its position in the order of creation, its kind, its shape
\* parameters and the positions of its operands in the instance
Structure(members) ==
    {[rank |-> RankIn(members, m),
      Type |-> doc[m].Type,
      dims |-> doc[m].dims,
      links |-> [k \in 1..Len(doc[m].links) |-> RankIn(members, doc[m].links[k])]]
     : m \in members}

(* C27: all thruster instances of a variant are structurally identical:    *)
(* every call of the thruster builder makes the same number of objects     *)
(* with the same kinds, the same shape parameters and the same operand     *)
(* structure; instances differ only in their names and placements, and no  *)
(* object belongs to two instances.                                        *)
C27_ThrustersStructurallyIdentical ==
    LET insts == {InstanceOf(a) : a \in ThrusterAssemblies}
    IN  /\ Cardinality({Structure(members) : members \in insts}) <= 1
        /\ \A m1, m2 \in insts : m1 # m2 => m1 \cap m2 = {}
        /\ Cardinality({doc[a].Name : a \in ThrusterAssemblies})
              = Cardinality(ThrusterAssemblies)

\* C27 witness: the optimized build has made its six thrusters, rotated and
\* unrotated, each of more than one object
C27_Witness ==
    /\ build = "optimized"
    /\ Cardinality(ThrusterAssemblies) = num_thrusters
    /\ \A a \in ThrusterAssemblies : Cardinality(InstanceOf(a)) > 5
    /\ \E a, b \in ThrusterAssemblies :
          doc[HousingOf(a)].Placement.Rotation # doc[HousingOf(b)].Placement.Rotation

-----------------------------------------------------------------------------
\* the Boolean objects of the document
Booleans == {i \in Objects : IsBoolean(i)}

(* C28: no object is shared between parents: each object is an operand of  *)
(* at most one Boolean object and is listed there once, so the dependency  *)
(* graph is a forest, and the objects handed to Part.export depend on      *)
(* pairwise disjoint sets of objects.                                      *)
C28_NoSharedOperand ==
    LET bs == Booleans
        \* the operand slots <<parent, position>> and the objects that fill them
        slots == UNION {{<<j, k>> : k \in 1..Len(doc[j].links)} : j \in bs}
        filled == UNION {Operands(j) : j \in bs}
        \* the pairs <<exported root, object it depends on>> and those objects
        roots == Range(exportList)
        deps == UNION {{<<r, m>> : m \in Closure(doc, r)} : r \in roots}
        used == UNION {Closure(doc, r) : r \in roots}
    IN  /\ Cardinality(slots) = Cardinality(filled)
        /\ Cardinality(roots) = Len(exportList)
        /\ Cardinality(deps) = Cardinality(used)

\* C28 witness: a drone build has exported several objects, among them
\* Boolean objects whose operands are Boolean objects themselves
C28_Witness ==
    /\ exported = "yes"
    /\ Len(exportList) > 1
    /\ \E j \in Booleans :
          /\ j \in Range(exportList)
          /\ \E o \in Operands(j) : IsBoolean(o)

====
